---- MODULE Spec2Model ----
(***************************************************************************)
(* Model of the Chronicle Android raw data preprocessor: the interval      *)
(* reconstructor (AppUsagePreprocessor.process_filtered_app_usage and      *)
(* process_valid_app_usage), the duplicate timestamp resolver and the      *)
(* disordered-timestamp check of TimestampPreprocessor.                    *)
(*                                                                         *)
(* A dataframe is a sequence of rows (records); the index of a row is its  *)
(* position.  Instants are integers: seconds in the reconstructor,         *)
(* nanoseconds in the duplicate resolver.  NaT is the missing timestamp.   *)
(***************************************************************************)
EXTENDS Integers, Sequences, FiniteSets, TLC

VARIABLES
    df,        \* self.current_participant_raw_data_df: the table being processed
    columns,   \* which of the optional columns start_timestamp/stop_timestamp df has
    options,   \* ChronicleAndroidRawDataPreprocessingOptions
    pc,        \* position in preprocess_Chronicle_Android_raw_data_file
    error,     \* the exception that ended the run ([kind |-> "none"] when none)
    df_arg,    \* the table handed to the stage that ran last
    result,    \* the value the last call of a stage's function returned
    current_data_primary_timezone,
               \* TimezonePreprocessor.current_data_primary_timezone
    stats,     \* ProcessingStats: the counters of the run
    file_index,\* position of the current file in the folder loop
    signals,   \* how many times the worker thread emitted each signal
    stages,    \* the stages the run of the current file has called, in order
    preprocessed_data_save_folder,
               \* local of preprocess_Chronicle_Android_raw_data_folder
    outputs,   \* the tables written by finalize_and_save_preprocessed_data_df
    now        \* datetime.now(), in seconds

vars == <<df, columns, options, pc, error, df_arg, result,
          current_data_primary_timezone, stats, file_index,
          signals, stages, preprocessed_data_save_folder, outputs, now>>

----------------------------------------------------------------------------
(* Bounds *)

MaxEvents == 4

Apps == {"app.a", "app.b"}

(* Seconds between consecutive events of a time-ordered table: one hour,   *)
(* or exactly the twelve-hour cutoff.                                      *)
Gaps == {3600, 12 * 3600}

----------------------------------------------------------------------------
(* config/constants.py *)

ACTIVITY_RESUMED == "Activity Resumed"
ACTIVITY_PAUSED == "Activity Paused"
ACTIVITY_STOPPED == "Activity Stopped"
ACTIVITY_DESTROYED == "Activity Destroyed"
APP_USAGE == "App Usage"
USER_INTERACTION == "User Interaction"
SCREEN_NON_INTERACTIVE == "Screen Non-Interactive"
KEYGUARD_SHOWN == "Keyguard Shown"
DEVICE_SHUTDOWN == "Device Shutdown"
USER_STOPPED == "User Stopped"
FILTERED_APP_RESUMED == "Filtered App Resumed"
FILTERED_APP_PAUSED == "Filtered App Paused"
FILTERED_APP_STOPPED == "Filtered App Stopped"
FILTERED_APP_DESTROYED == "Filtered App Destroyed"
FILTERED_APP_USAGE == "Filtered App Usage"
END_OF_USAGE_MISSING == "End of Usage Missing"

START_TIMESTAMP == "start_timestamp"
STOP_TIMESTAMP == "stop_timestamp"

REMOVE_ALL_DATA_WITHOUT_SELECTED_TIMEZONE == 0
CONVERT_ALL_DATA_TO_SELECTED_TIMEZONE == 1
REMOVE_ALL_DATA_WITHOUT_PRIMARY_TIMEZONE_PER_FILE == 2
CONVERT_ALL_DATA_TO_PRIMARY_TIMEZONE_PER_FILE == 3

DEFAULT_MINIMUM_USAGE_DURATION == 0
DEFAULT_CUSTOM_APP_ENGAGEMENT_DURATION == 300

POSSIBLE_SAME_APP_INTERACTION_TYPES_TO_STOP_USAGE_AT ==
    {ACTIVITY_PAUSED, ACTIVITY_RESUMED, ACTIVITY_STOPPED, ACTIVITY_DESTROYED}

POSSIBLE_OTHER_INTERACTION_TYPES_TO_STOP_USAGE_AT ==
    {ACTIVITY_RESUMED, SCREEN_NON_INTERACTIVE, KEYGUARD_SHOWN, ACTIVITY_DESTROYED,
     DEVICE_SHUTDOWN, USER_STOPPED, FILTERED_APP_RESUMED, FILTERED_APP_USAGE}

----------------------------------------------------------------------------
(* Missing values *)

NaT == -1            \* pandas NaT / NaN in a timestamp column
None == -1           \* Python None where a number is expected: no index, no duration
NoTimezone == "None" \* Python None where a timezone is expected

NoError == [kind |-> "none", count |-> 0]

(* models/processing_stats.py: the counters of a new ProcessingStats *)
ProcessingStats ==
    [total_files |-> 0, processed_files |-> 0, failed_files |-> 0, empty_files |-> 0]

(* A mark_error that leaves the counters alone. *)
mark_error_uncounted(s) == s

(* mark_error -> add_error *)
mark_error(s) == [s EXCEPT !.failed_files = @ + 1]

(* mark_processed *)
mark_processed(s) == [s EXCEPT !.processed_files = @ + 1]

(* mark_empty_file *)
mark_empty_file(s) == [s EXCEPT !.empty_files = @ + 1]

(* ui/workers/preprocessing_thread.py: the signals of PreprocessingThread, *)
(* none emitted yet.                                                      *)
NoSignals ==
    [completed_signal |-> 0, error_signal |-> 0,
     plotting_started_signal |-> 0, plotting_completed_signal |-> 0]

(* A path variable that holds no folder (None). *)
NoFolder == "None"

Raise(kind, count) == [kind |-> kind, count |-> count]

----------------------------------------------------------------------------
(* models/preprocessing_options.py *)

(* __post_init__: the filtered counterparts of the same-app stop types.    *)
filtered_same_app_types(same_app_types) ==
    {t \in {FILTERED_APP_PAUSED, FILTERED_APP_STOPPED,
            FILTERED_APP_DESTROYED, FILTERED_APP_RESUMED} :
        \/ t = FILTERED_APP_PAUSED /\ ACTIVITY_PAUSED \in same_app_types
        \/ t = FILTERED_APP_STOPPED /\ ACTIVITY_STOPPED \in same_app_types
        \/ t = FILTERED_APP_DESTROYED /\ ACTIVITY_DESTROYED \in same_app_types
        \/ t = FILTERED_APP_RESUMED /\ ACTIVITY_RESUMED \in same_app_types}

(* The options object as the dataclass constructor and __post_init__       *)
(* leave it.                                                               *)
ChronicleAndroidRawDataPreprocessingOptions(same_app_types, other_types) ==
    [same_app_interaction_types_to_stop_usage_at |-> same_app_types,
     other_interaction_types_to_stop_usage_at |-> other_types,
     filtered_same_app_interaction_types_to_stop_usage_at |->
         filtered_same_app_types(same_app_types),
     filtered_other_interaction_types_to_stop_usage_at |-> other_types,
     minimum_usage_duration |-> DEFAULT_MINIMUM_USAGE_DURATION,
     custom_app_engagement_duration |-> DEFAULT_CUSTOM_APP_ENGAGEMENT_DURATION,
     long_usage_duration_thresholds |-> <<1, 6, 12, 24>>,
     long_data_time_gap_thresholds |-> <<1, 6, 12, 24>>,
     timezone_handling_option |-> CONVERT_ALL_DATA_TO_PRIMARY_TIMEZONE_PER_FILE,
     selected_timezone |-> NoTimezone,
     correct_duplicate_event_timestamps |-> TRUE,
     raw_data_folder |-> "raw data",
     enable_preprocessing |-> TRUE,
     enable_plotting |-> TRUE]

(* The configurations the runs are started with: the defaults, an         *)
(* operator's narrower selection of stop triggers, and the defaults with  *)
(* a minimum usage duration of two hours.                                 *)
OptionChoices ==
    {ChronicleAndroidRawDataPreprocessingOptions(
         POSSIBLE_SAME_APP_INTERACTION_TYPES_TO_STOP_USAGE_AT,
         POSSIBLE_OTHER_INTERACTION_TYPES_TO_STOP_USAGE_AT),
     ChronicleAndroidRawDataPreprocessingOptions(
         {ACTIVITY_PAUSED}, {ACTIVITY_RESUMED, FILTERED_APP_RESUMED}),
     [ChronicleAndroidRawDataPreprocessingOptions(
          POSSIBLE_SAME_APP_INTERACTION_TYPES_TO_STOP_USAGE_AT,
          POSSIBLE_OTHER_INTERACTION_TYPES_TO_STOP_USAGE_AT)
         EXCEPT !.minimum_usage_duration = 2 * 3600]}

----------------------------------------------------------------------------
(* preprocessors/app_usage_preprocessor.py: the interval reconstructor *)

long_duration_threshold_seconds == 12 * 3600

(* indices[0] if indices else None, for the ascending index list `indices` *)
first_index(indices) ==
    IF indices = {} THEN None
    ELSE CHOOSE j \in indices : \A k \in indices : j <= k

(* df_copy.loc[index, EVENT_TIMESTAMP] if index is not None else None *)
timestamp_at(d, index) ==
    IF index = None THEN NaT ELSE d[index].event_timestamp

(* Mutant of same_app_indices: the rows before the resume are candidates  *)
(* too (the df.index > i condition is lost).                              *)
same_app_indices_any_position(d, i, stop_types) ==
    {j \in DOMAIN d : /\ j # i
                      /\ d[j].app_package_name = d[i].app_package_name
                      /\ d[j].interaction_type \in stop_types}

(* (df.index > i) & (app == current_app) & mask *)
same_app_indices(d, i, stop_types) ==
    {j \in DOMAIN d : /\ j > i
                      /\ d[j].app_package_name = d[i].app_package_name
                      /\ d[j].interaction_type \in stop_types}

(* (df.index > i) & (app != current_app) & other_stop_mask *)
other_app_indices(d, i, stop_types) ==
    {j \in DOMAIN d : /\ j > i
                      /\ d[j].app_package_name # d[i].app_package_name
                      /\ d[j].interaction_type \in stop_types}

(* Mutant of nearest_stop_timestamp: the same-app stop is preferred to a  *)
(* nearer other-app stop.                                                 *)
nearest_stop_timestamp_same_first(current, same_ts, other_ts, stopped_ts) ==
    LET stopped_ok == /\ stopped_ts # NaT
                      /\ stopped_ts - current < long_duration_threshold_seconds
    IN  IF same_ts - current < long_duration_threshold_seconds THEN same_ts
        ELSE IF stopped_ok THEN stopped_ts ELSE NaT

(* Mutant of nearest_stop_timestamp: no fallback to the activity-stopped  *)
(* event when the nearer stop is not under the threshold.                 *)
nearest_stop_timestamp_no_fallback(current, same_ts, other_ts, stopped_ts) ==
    LET nearer == IF same_ts - current <= other_ts - current THEN same_ts ELSE other_ts
    IN  IF nearer - current < long_duration_threshold_seconds THEN nearer ELSE NaT

(* The if/elif chain taken when both a same-app and an other-app stop      *)
(* exist: the nearer one if it is under the threshold, else the            *)
(* activity-stopped event if it is under the threshold, else None.         *)
nearest_stop_timestamp(current, same_ts, other_ts, stopped_ts) ==
    LET same_app_diff == same_ts - current
        other_app_diff == other_ts - current
        stopped_ok == /\ stopped_ts # NaT
                      /\ stopped_ts - current < long_duration_threshold_seconds
        fallback == IF stopped_ok THEN stopped_ts ELSE NaT
    IN  IF same_app_diff < other_app_diff
        THEN IF same_app_diff < long_duration_threshold_seconds
             THEN same_ts ELSE fallback
        ELSE IF same_app_diff > other_app_diff
        THEN IF other_app_diff < long_duration_threshold_seconds
             THEN other_ts ELSE fallback
        ELSE IF same_app_diff < long_duration_threshold_seconds
             THEN same_ts ELSE fallback

(* The branch taken when a same-app or an other-app stop is missing, in    *)
(* process_valid_app_usage: the activity-stopped event, whatever its delta.*)
valid_stopped_only_timestamp(current, stopped_ts) ==
    stopped_ts

(* The same branch in process_filtered_app_usage: the activity-stopped     *)
(* event only when its delta is under the threshold.                       *)
filtered_stopped_only_timestamp(current, stopped_ts) ==
    IF stopped_ts # NaT /\ stopped_ts - current < long_duration_threshold_seconds
    THEN stopped_ts ELSE NaT

(* timestamp_to_use of process_valid_app_usage for the resume at index i   *)
valid_timestamp_to_use(d, i, opts) ==
    LET same_i == first_index(same_app_indices(d, i,
                      opts.same_app_interaction_types_to_stop_usage_at))
        other_i == first_index(other_app_indices(d, i,
                      opts.other_interaction_types_to_stop_usage_at))
        stopped_i == first_index(same_app_indices(d, i, {ACTIVITY_STOPPED}))
        current == d[i].event_timestamp
    IN  IF same_i # None /\ other_i # None
        THEN nearest_stop_timestamp(current, timestamp_at(d, same_i),
                 timestamp_at(d, other_i), timestamp_at(d, stopped_i))
        ELSE valid_stopped_only_timestamp(current, timestamp_at(d, stopped_i))

(* timestamp_to_use of process_filtered_app_usage for the resume at i      *)
filtered_timestamp_to_use(d, i, opts) ==
    LET same_i == first_index(same_app_indices(d, i,
                      opts.filtered_same_app_interaction_types_to_stop_usage_at))
        other_i == first_index(other_app_indices(d, i,
                      opts.filtered_other_interaction_types_to_stop_usage_at))
        stopped_i == first_index(same_app_indices(d, i, {FILTERED_APP_STOPPED}))
        current == d[i].event_timestamp
    IN  IF same_i # None /\ other_i # None
        THEN nearest_stop_timestamp(current, timestamp_at(d, same_i),
                 timestamp_at(d, other_i), timestamp_at(d, stopped_i))
        ELSE filtered_stopped_only_timestamp(current, timestamp_at(d, stopped_i))

(* What the loop of process_valid_app_usage leaves in row i: start and     *)
(* stop when a stop was found, else only the new interaction type.         *)
valid_apply_row(d, i, opts) ==
    IF d[i].interaction_type # ACTIVITY_RESUMED THEN d[i]
    ELSE LET timestamp_to_use == valid_timestamp_to_use(d, i, opts)
         IN  IF timestamp_to_use # NaT
             THEN [d[i] EXCEPT !.start_timestamp = d[i].event_timestamp,
                               !.stop_timestamp = timestamp_to_use]
             ELSE [d[i] EXCEPT !.interaction_type = END_OF_USAGE_MISSING]

(* What the loop of process_filtered_app_usage leaves in row i: start in   *)
(* both branches.                                                          *)
filtered_apply_row(d, i, opts) ==
    IF d[i].interaction_type # FILTERED_APP_RESUMED THEN d[i]
    ELSE LET timestamp_to_use == filtered_timestamp_to_use(d, i, opts)
         IN  IF timestamp_to_use # NaT
             THEN [d[i] EXCEPT !.start_timestamp = d[i].event_timestamp,
                               !.stop_timestamp = timestamp_to_use]
             ELSE [d[i] EXCEPT !.start_timestamp = d[i].event_timestamp,
                               !.interaction_type = END_OF_USAGE_MISSING]

(* Mutant of drop_unfinished_resumes: the retagged rows without a stop    *)
(* are dropped with the unfinished resumes.                               *)
drop_unfinished_and_missing(d, resumed) ==
    SelectSeq(d, LAMBDA r : ~(/\ r.interaction_type \in {resumed, END_OF_USAGE_MISSING}
                              /\ (r.start_timestamp = NaT \/ r.stop_timestamp = NaT)))

(* df_copy[~((type == resumed) & (start.isna() | stop.isna()))] *)
drop_unfinished_resumes(d, resumed) ==
    SelectSeq(d, LAMBDA r : ~(/\ r.interaction_type = resumed
                              /\ (r.start_timestamp = NaT \/ r.stop_timestamp = NaT)))

(* A drop_paused that keeps the pause rows. *)
drop_paused_none(d, paused) == d

(* df_copy[~(type == paused)] *)
drop_paused(d, paused) ==
    SelectSeq(d, LAMBDA r : r.interaction_type # paused)

(* Series.replace(resumed, usage) on the interaction type column *)
replace_interaction_type(d, resumed, usage) ==
    [j \in DOMAIN d |->
        IF d[j].interaction_type = resumed
        THEN [d[j] EXCEPT !.interaction_type = usage] ELSE d[j]]

----------------------------------------------------------------------------
(* preprocessors/timestamp_preprocessor.py, timezone_preprocessor.py *)

(* Mutant of check_for_disordered_timestamps: the comparison is >=, so a  *)
(* row whose start equals its stop counts as disordered.                  *)
check_for_disordered_timestamps_ge(d) ==
    LET disordered_timestamps ==
            SelectSeq(d, LAMBDA r : /\ r.start_timestamp # NaT
                                    /\ r.stop_timestamp # NaT
                                    /\ r.start_timestamp >= r.stop_timestamp)
    IN  [error |-> IF Len(disordered_timestamps) > 0
                   THEN Raise("DisorderedTimestamps", Len(disordered_timestamps))
                   ELSE NoError,
         df |-> d]

(* check_for_disordered_timestamps: the rows with start > stop (a          *)
(* comparison with NaT is False) are selected into a new frame and         *)
(* counted; the error raised carries the count.  The result is the error   *)
(* and the caller's table, which is only read.                             *)
check_for_disordered_timestamps(d) ==
    LET disordered_timestamps ==
            SelectSeq(d, LAMBDA r : /\ r.start_timestamp # NaT
                                    /\ r.stop_timestamp # NaT
                                    /\ r.start_timestamp > r.stop_timestamp)
    IN  [error |-> IF Len(disordered_timestamps) > 0
                   THEN Raise("DisorderedTimestamps", Len(disordered_timestamps))
                   ELSE NoError,
         df |-> d]

(* calculate_duration_in_seconds *)
calculate_duration_in_seconds(start_timestamp, stop_timestamp) ==
    stop_timestamp - start_timestamp

(* The timezone convert_timestamp_columns converts to: None when the       *)
(* policy names no target, "ValueError" when the policy needs one that is  *)
(* missing.                                                                *)
target_timezone(opts, primary_timezone) ==
    LET per_file == {CONVERT_ALL_DATA_TO_PRIMARY_TIMEZONE_PER_FILE,
                     REMOVE_ALL_DATA_WITHOUT_PRIMARY_TIMEZONE_PER_FILE}
    IN  IF /\ opts.timezone_handling_option = CONVERT_ALL_DATA_TO_SELECTED_TIMEZONE
           /\ opts.selected_timezone # NoTimezone
        THEN opts.selected_timezone
        ELSE IF opts.timezone_handling_option \in per_file /\ primary_timezone # NoTimezone
        THEN primary_timezone
        ELSE IF opts.timezone_handling_option = CONVERT_ALL_DATA_TO_SELECTED_TIMEZONE
        THEN "ValueError"
        ELSE IF opts.timezone_handling_option \in per_file
        THEN "ValueError"
        ELSE NoTimezone

(* convert_timestamp_columns on start_timestamp and stop_timestamp: a     *)
(* timezone-aware column holds UTC instants and tz_convert changes only   *)
(* the zone they are printed in, so the instants of the rows stay.  The   *)
(* result is the error raised, if any.                                    *)
convert_timestamp_columns(d, opts, primary_timezone) ==
    IF target_timezone(opts, primary_timezone) = "ValueError"
    THEN Raise("ValueError", 0) ELSE NoError

----------------------------------------------------------------------------
(* The two reconstructor passes as functions from a table to the result   *)
(* [df, columns, error].                                                  *)

Result(d, cols, err) == [df |-> d, columns |-> cols, error |-> err]

(* Mutant of set_durations: a duration equal to minimum_usage_duration is *)
(* nulled too (> for >=).                                                 *)
set_durations_strictly_above(d, opts) ==
    [j \in DOMAIN d |->
        IF d[j].interaction_type = APP_USAGE
        THEN LET x == IF d[j].start_timestamp = NaT \/ d[j].stop_timestamp = NaT
                      THEN None
                      ELSE calculate_duration_in_seconds(d[j].start_timestamp,
                                                         d[j].stop_timestamp)
             IN  [d[j] EXCEPT !.duration_seconds =
                     IF x # None /\ x > opts.minimum_usage_duration THEN x ELSE None]
        ELSE d[j]]

(* duration_seconds of the App Usage rows: stop - start, None when below  *)
(* minimum_usage_duration.                                                *)
set_durations(d, opts) ==
    [j \in DOMAIN d |->
        IF d[j].interaction_type = APP_USAGE
        THEN LET x == IF d[j].start_timestamp = NaT \/ d[j].stop_timestamp = NaT
                      THEN None
                      ELSE calculate_duration_in_seconds(d[j].start_timestamp,
                                                         d[j].stop_timestamp)
             IN  [d[j] EXCEPT !.duration_seconds =
                     IF x # None /\ x >= opts.minimum_usage_duration THEN x ELSE None]
        ELSE d[j]]

process_filtered_app_usage(d, cols, opts) ==
    IF ~\E j \in DOMAIN d :
           d[j].interaction_type \in {FILTERED_APP_RESUMED, FILTERED_APP_PAUSED}
    THEN Result(d, cols, NoError)
    ELSE
    LET resumed == {j \in DOMAIN d : d[j].interaction_type = FILTERED_APP_RESUMED}
        looped == [j \in DOMAIN d |-> filtered_apply_row(d, j, opts)]
        cols1 == cols \cup (IF resumed # {} THEN {START_TIMESTAMP} ELSE {})
                      \cup (IF \E j \in resumed : filtered_timestamp_to_use(d, j, opts) # NaT
                            THEN {STOP_TIMESTAMP} ELSE {})
        kept == drop_unfinished_resumes(drop_paused(looped, FILTERED_APP_PAUSED),
                                        FILTERED_APP_RESUMED)
        usage == replace_interaction_type(kept, FILTERED_APP_RESUMED, FILTERED_APP_USAGE)
        converted == convert_timestamp_columns(usage, opts, "UTC")
    IN  IF ~({START_TIMESTAMP, STOP_TIMESTAMP} \subseteq cols1)
        THEN Result(d, cols, Raise("KeyError", 0))
        ELSE IF converted # NoError THEN Result(d, cols, converted)
        ELSE IF check_for_disordered_timestamps(usage).error # NoError
        THEN Result(d, cols, check_for_disordered_timestamps(usage).error)
        ELSE Result(usage, cols1, NoError)

process_valid_app_usage(d, cols, opts) ==
    IF ~\E j \in DOMAIN d :
           d[j].interaction_type \in {ACTIVITY_RESUMED, ACTIVITY_PAUSED}
    THEN Result(d, cols, Raise("EmptyDataError", 0))
    ELSE
    LET resumed == {j \in DOMAIN d : d[j].interaction_type = ACTIVITY_RESUMED}
        looped == [j \in DOMAIN d |-> valid_apply_row(d, j, opts)]
        cols1 == cols \cup (IF \E j \in resumed : valid_timestamp_to_use(d, j, opts) # NaT
                            THEN {START_TIMESTAMP, STOP_TIMESTAMP} ELSE {})
        kept == drop_unfinished_resumes(drop_paused(looped, ACTIVITY_PAUSED),
                                        ACTIVITY_RESUMED)
        usage == replace_interaction_type(kept, ACTIVITY_RESUMED, APP_USAGE)
        converted == convert_timestamp_columns(usage, opts, "UTC")
    IN  IF ~({START_TIMESTAMP, STOP_TIMESTAMP} \subseteq cols1)
        THEN Result(d, cols, Raise("KeyError", 0))
        ELSE IF converted # NoError THEN Result(d, cols, converted)
        ELSE IF check_for_disordered_timestamps(usage).error # NoError
        THEN Result(d, cols, check_for_disordered_timestamps(usage).error)
        ELSE Result(set_durations(usage, opts), cols1, NoError)

----------------------------------------------------------------------------
(* preprocessors/main_preprocessor.py: one participant's file *)

ValidEventTypes == {ACTIVITY_RESUMED, ACTIVITY_PAUSED, ACTIVITY_STOPPED}
FilteredEventTypes == {FILTERED_APP_RESUMED, FILTERED_APP_PAUSED, FILTERED_APP_STOPPED}

Event(type, app, timestamp) ==
    [interaction_type |-> type, app_package_name |-> app,
     event_timestamp |-> timestamp, start_timestamp |-> NaT,
     stop_timestamp |-> NaT, duration_seconds |-> None]

Init ==
    /\ df = <<>>
    /\ columns = {}
    /\ options \in OptionChoices
    /\ pc = "read"
    /\ error = NoError
    /\ df_arg = <<>>
    /\ result = <<>>
    /\ current_data_primary_timezone = NoTimezone
    /\ stats = ProcessingStats
    /\ file_index = 0
    /\ signals = NoSignals
    /\ stages = <<>>
    /\ preprocessed_data_save_folder = NoFolder
    /\ outputs = <<>>
    /\ now = 0

(* One more event of the file, in time order: the table the reconstructor *)
(* is handed was sorted by event_timestamp (correct_event_timestamp_column*)
(* and remove_selected_interaction_types).  A file holds the events of    *)
(* unfiltered apps or of filtered apps.                                   *)
ReadEvent ==
    /\ pc = "read"
    /\ Len(df) < MaxEvents
    /\ \E types \in {ValidEventTypes, FilteredEventTypes}, app \in Apps, gap \in Gaps :
        \E type \in types :
            /\ \A j \in DOMAIN df : df[j].interaction_type \in types
            /\ df' = Append(df, Event(type, app,
                        IF df = <<>> THEN 0 ELSE df[Len(df)].event_timestamp + gap))
    /\ UNCHANGED <<columns, options, pc, error, df_arg, result, current_data_primary_timezone, stats, file_index, signals, stages, preprocessed_data_save_folder, outputs, now>>

(* process_filtered_app_usage_rows; an exception ends the file's run      *)
(* (the except clause of preprocess_Chronicle_Android_raw_data_file).     *)
ProcessFilteredAppUsageRows ==
    /\ pc = "read"
    /\ df # <<>>
    /\ LET res == process_filtered_app_usage(df, columns, options)
       IN  /\ df_arg' = df
           /\ df' = res.df
           /\ columns' = res.columns
           /\ error' = res.error
           /\ pc' = IF res.error = NoError THEN "filtered_done" ELSE "filtered_failed"
           /\ stats' = IF res.error = NoError THEN stats ELSE mark_error(stats)
    /\ UNCHANGED <<options, result, current_data_primary_timezone, file_index, signals, stages, preprocessed_data_save_folder, outputs, now>>

(* process_valid_app_usage_rows *)
ProcessValidAppUsageRows ==
    /\ pc = "filtered_done"
    /\ LET res == process_valid_app_usage(df, columns, options)
       IN  /\ df_arg' = df
           /\ df' = res.df
           /\ columns' = res.columns
           /\ error' = res.error
           /\ pc' = IF res.error = NoError THEN "valid_done" ELSE "valid_failed"
           /\ stats' = IF res.error = NoError THEN stats ELSE mark_error(stats)
    /\ UNCHANGED <<options, result, current_data_primary_timezone, file_index, signals, stages, preprocessed_data_save_folder, outputs, now>>

Next ==
    \/ ReadEvent
    \/ ProcessFilteredAppUsageRows
    \/ ProcessValidAppUsageRows

Spec == Init /\ [][Next]_vars

----------------------------------------------------------------------------
(* Properties of the interval reconstructor.  They are stated on df_arg,  *)
(* the time-ordered table a pass was handed, and df, the table it         *)
(* returned; an event is identified by its event_timestamp, which is      *)
(* unique in df_arg.                                                      *)

Categories == {"Valid", "Filtered"}

ResumedOf(cat) == IF cat = "Valid" THEN ACTIVITY_RESUMED ELSE FILTERED_APP_RESUMED
StoppedOf(cat) == IF cat = "Valid" THEN ACTIVITY_STOPPED ELSE FILTERED_APP_STOPPED
UsageOf(cat) == IF cat = "Valid" THEN APP_USAGE ELSE FILTERED_APP_USAGE

SameTypesOf(cat) ==
    IF cat = "Valid" THEN options.same_app_interaction_types_to_stop_usage_at
    ELSE options.filtered_same_app_interaction_types_to_stop_usage_at

OtherTypesOf(cat) ==
    IF cat = "Valid" THEN options.other_interaction_types_to_stop_usage_at
    ELSE options.filtered_other_interaction_types_to_stop_usage_at

(* The pass of the category has returned a table. *)
Returned(cat) ==
    /\ pc = (IF cat = "Valid" THEN "valid_done" ELSE "filtered_done")
    /\ error = NoError

(* The pass of the category has run: it returned or raised. *)
Ran(cat) ==
    pc \in (IF cat = "Valid" THEN {"valid_done", "valid_failed"}
            ELSE {"filtered_done", "filtered_failed"})

Resumes(cat) == {i \in DOMAIN df_arg : df_arg[i].interaction_type = ResumedOf(cat)}

T(i) == df_arg[i].event_timestamp

LaterSame(cat, i) ==
    {j \in DOMAIN df_arg : /\ T(j) > T(i)
                           /\ df_arg[j].app_package_name = df_arg[i].app_package_name
                           /\ df_arg[j].interaction_type \in SameTypesOf(cat)}

LaterOther(cat, i) ==
    {j \in DOMAIN df_arg : /\ T(j) > T(i)
                           /\ df_arg[j].app_package_name # df_arg[i].app_package_name
                           /\ df_arg[j].interaction_type \in OtherTypesOf(cat)}

LaterStopped(cat, i) ==
    {j \in DOMAIN df_arg : /\ T(j) > T(i)
                           /\ df_arg[j].app_package_name = df_arg[i].app_package_name
                           /\ df_arg[j].interaction_type = StoppedOf(cat)}

(* The instant of the earliest event of a non-empty set of events *)
EarliestT(S) == CHOOSE t \in {T(j) : j \in S} : \A j \in S : t <= T(j)

(* The rows of the returned table that stem from event i of df_arg *)
Emitted(i) == {k \in DOMAIN df : df[k].event_timestamp = T(i)}

HasInterval(k) == df[k].start_timestamp # NaT /\ df[k].stop_timestamp # NaT

Cutoff == 12 * 3600

(* The primary candidate of resume i: the nearer of the earliest same-app *)
(* and the earliest other-app stop, or the only one of them that exists.  *)
PrimaryT(cat, i) ==
    IF LaterSame(cat, i) = {} THEN EarliestT(LaterOther(cat, i))
    ELSE IF LaterOther(cat, i) = {} THEN EarliestT(LaterSame(cat, i))
    ELSE IF EarliestT(LaterSame(cat, i)) <= EarliestT(LaterOther(cat, i))
         THEN EarliestT(LaterSame(cat, i))
         ELSE EarliestT(LaterOther(cat, i))

(* C1: when both a same-app and an other-app stop follow a resume, the    *)
(* nearer of the two is the primary candidate, and when it is less than   *)
(* 12 hours after the resume the pass returns a table in which the        *)
(* interval starts at the resume and stops at that candidate, in both     *)
(* categories.                                                            *)
C1_SmallerDeltaWins ==
    \A cat \in Categories : Ran(cat) =>
        \A i \in Resumes(cat) :
            (/\ LaterSame(cat, i) # {}
             /\ LaterOther(cat, i) # {}
             /\ PrimaryT(cat, i) - T(i) < Cutoff)
            => /\ error = NoError
               /\ Emitted(i) # {}
               /\ \A k \in Emitted(i) :
                    /\ df[k].interaction_type = UsageOf(cat)
                    /\ df[k].start_timestamp = T(i)
                    /\ df[k].stop_timestamp = PrimaryT(cat, i)

(* A returned valid table in which a resume was stopped at an other-app   *)
(* stop that came before the same-app stop.                               *)
C1_Witness ==
    /\ Returned("Valid")
    /\ \E i \in Resumes("Valid") :
        /\ LaterSame("Valid", i) # {}
        /\ LaterOther("Valid", i) # {}
        /\ EarliestT(LaterOther("Valid", i)) < EarliestT(LaterSame("Valid", i))
        /\ \E k \in Emitted(i) :
             df[k].stop_timestamp = EarliestT(LaterOther("Valid", i))

(* C2 as claimed: when only one of the same-app and other-app stops       *)
(* exists, it is the primary candidate and, if within the cutoff, the     *)
(* interval's stop.                                                       *)
C2_SoleCandidateIsStop ==
    \A cat \in Categories : Returned(cat) =>
        \A i \in Resumes(cat) :
            (/\ (LaterSame(cat, i) = {}) # (LaterOther(cat, i) = {})
             /\ PrimaryT(cat, i) - T(i) < Cutoff)
            => /\ Emitted(i) # {}
               /\ \A k \in Emitted(i) : df[k].stop_timestamp = PrimaryT(cat, i)

(* C3: when a primary candidate exists but is 12 hours or more after the  *)
(* resume, and an activity-stopped event of the same app follows the      *)
(* resume by less than 12 hours, the pass returns a table in which the    *)
(* interval stops at the earliest activity-stopped event.                 *)
C3_FallbackToActivityStopped ==
    \A cat \in Categories : Ran(cat) =>
        \A i \in Resumes(cat) :
            (/\ LaterSame(cat, i) # {} \/ LaterOther(cat, i) # {}
             /\ PrimaryT(cat, i) - T(i) >= Cutoff
             /\ \E j \in LaterStopped(cat, i) : T(j) - T(i) < Cutoff)
            => /\ error = NoError
               /\ Emitted(i) # {}
               /\ \A k \in Emitted(i) :
                    /\ df[k].start_timestamp = T(i)
                    /\ df[k].stop_timestamp = EarliestT(LaterStopped(cat, i))

(* A returned table where both a same-app and an other-app stop exist,    *)
(* the nearer is 12 hours or more away and the interval was stopped at    *)
(* an earlier activity-stopped event.                                     *)
C3_Witness ==
    \E cat \in Categories :
        /\ Returned(cat)
        /\ \E i \in Resumes(cat) :
            /\ LaterSame(cat, i) # {}
            /\ LaterOther(cat, i) # {}
            /\ PrimaryT(cat, i) - T(i) >= Cutoff
            /\ \E j \in LaterStopped(cat, i) :
                /\ T(j) - T(i) < Cutoff
                /\ \E k \in Emitted(i) : df[k].stop_timestamp = T(j)

(* C4 as claimed: in both categories no emitted interval lasts 12 hours   *)
(* or more.                                                               *)
C4_EveryTerminatorUnderCutoff ==
    \A cat \in Categories : Returned(cat) =>
        \A k \in DOMAIN df :
            HasInterval(k) => df[k].stop_timestamp - df[k].start_timestamp < Cutoff

(* The terminator the pass of the category chose for the resume at i *)
TimestampToUse(cat, i) ==
    IF cat = "Valid" THEN valid_timestamp_to_use(df_arg, i, options)
    ELSE filtered_timestamp_to_use(df_arg, i, options)

C6_MissingRowHasStart ==
    \A cat \in Categories : Returned(cat) =>
        \A k \in DOMAIN df :
            df[k].interaction_type = END_OF_USAGE_MISSING
            => df[k].start_timestamp = df[k].event_timestamp

(* C7: on a time-ordered table neither pass ends with the disordered-     *)
(* timestamps error, and every row of the table it holds that has start   *)
(* and stop has start <= stop.                                            *)
C7_StartNotAfterStop ==
    /\ error.kind # "DisorderedTimestamps"
    /\ \A k \in DOMAIN df :
         HasInterval(k) => df[k].start_timestamp <= df[k].stop_timestamp

(* A returned table of each category with an interval of positive length *)
C7_Witness ==
    /\ Returned("Valid")
    /\ \E k \in DOMAIN df :
        /\ df[k].interaction_type = APP_USAGE
        /\ HasInterval(k)
        /\ df[k].start_timestamp < df[k].stop_timestamp

----------------------------------------------------------------------------
(* TimestampPreprocessor.check_for_disordered_timestamps on its own: any  *)
(* table of intervals, ordered or not.                                    *)

MaxIntervals == 3

IntervalInstants == {NaT, 3600, 7200}

InitCheck ==
    /\ df = <<>>
    /\ columns = {START_TIMESTAMP, STOP_TIMESTAMP}
    /\ options = ChronicleAndroidRawDataPreprocessingOptions(
                     POSSIBLE_SAME_APP_INTERACTION_TYPES_TO_STOP_USAGE_AT,
                     POSSIBLE_OTHER_INTERACTION_TYPES_TO_STOP_USAGE_AT)
    /\ pc = "intervals"
    /\ error = NoError
    /\ df_arg = <<>>
    /\ result = <<>>
    /\ current_data_primary_timezone = NoTimezone
    /\ stats = ProcessingStats
    /\ file_index = 0
    /\ signals = NoSignals
    /\ stages = <<>>
    /\ preprocessed_data_save_folder = NoFolder
    /\ outputs = <<>>
    /\ now = 0

AddInterval ==
    /\ pc = "intervals"
    /\ Len(df) < MaxIntervals
    /\ \E start \in IntervalInstants, stop \in IntervalInstants :
        df' = Append(df, [Event(APP_USAGE, "app.a", 0) EXCEPT
                             !.start_timestamp = start, !.stop_timestamp = stop])
    /\ UNCHANGED <<columns, options, pc, error, df_arg, result, current_data_primary_timezone, stats, file_index, signals, stages, preprocessed_data_save_folder, outputs, now>>

(* check_data_for_disordered_timestamps: the check runs on the table *)
CheckDataForDisorderedTimestamps ==
    /\ pc = "intervals"
    /\ LET res == check_for_disordered_timestamps(df)
       IN  /\ df_arg' = df
           /\ df' = res.df
           /\ error' = res.error
           /\ pc' = "checked"
    /\ UNCHANGED <<columns, options, result, current_data_primary_timezone, stats, file_index, signals, stages, preprocessed_data_save_folder, outputs, now>>

NextCheck ==
    \/ AddInterval
    \/ CheckDataForDisorderedTimestamps

SpecCheck == InitCheck /\ [][NextCheck]_vars

(* The rows of the checked table whose start is later than their stop *)
Disordered ==
    {i \in DOMAIN df_arg : /\ df_arg[i].start_timestamp # NaT
                           /\ df_arg[i].stop_timestamp # NaT
                           /\ df_arg[i].stop_timestamp < df_arg[i].start_timestamp}

(* C8: the check raises the disordered-timestamps error exactly when some *)
(* row has start later than stop, the error carries the number of such    *)
(* rows, and the table is the same after the check, raised or not.        *)
C8_DisorderedRaisedWithCount ==
    pc = "checked" =>
        /\ (error.kind = "DisorderedTimestamps") <=> (Disordered # {})
        /\ Disordered # {} => error.count = Cardinality(Disordered)
        /\ Disordered = {} => error = NoError
        /\ df = df_arg

(* A check that raised for two disordered rows of a table that also holds *)
(* a row without a stop.                                                  *)
C8_Witness ==
    /\ pc = "checked"
    /\ error = Raise("DisorderedTimestamps", 2)
    /\ Len(df) = 3
    /\ \E i \in DOMAIN df : df[i].stop_timestamp = NaT

----------------------------------------------------------------------------
(* TimestampPreprocessor.unalign_duplicate_timestamps: the duplicate      *)
(* timestamp resolver, on raw events in file order.  Instants are         *)
(* nanoseconds since the epoch.                                           *)

MaxRawEvents == 4

NanosecondsPerSecond == 1000000000

UnalignInstants == {NanosecondsPerSecond - 1, NanosecondsPerSecond}

(* The members of the InteractionType enum *)
InteractionType ==
    {ACTIVITY_RESUMED, ACTIVITY_PAUSED, APP_USAGE, "App Launch", "End of Day",
     "Continue Previous Day", "Configuration Change", "System Interaction",
     USER_INTERACTION, "Shortcut Invocation", "Chooser Action",
     "Notification Seen", "Notification Received", "Notification Removed",
     "Standby Bucket Changed", "Notification Interruption",
     "Slice Pinned Priv", "Slice Pinned App", "Screen Interactive",
     SCREEN_NON_INTERACTIVE, "Device Screen Off", KEYGUARD_SHOWN,
     "Keyguard Hidden", "Screen Interactive/Keyguard Shown",
     "Screen Non-Interactive/Keyguard Hidden", "Foreground Service Start",
     "Foreground Service Stop", "Continuing Foreground Service",
     "Rollover Foreground Service", ACTIVITY_STOPPED, ACTIVITY_DESTROYED,
     "Flush to Disk", DEVICE_SHUTDOWN, "Device Startup", "User Unlocked",
     USER_STOPPED, "Locus ID Set", "App Component Used",
     FILTERED_APP_RESUMED, FILTERED_APP_PAUSED, FILTERED_APP_STOPPED,
     FILTERED_APP_DESTROYED, FILTERED_APP_USAGE, END_OF_USAGE_MISSING,
     "Non-Target Child App Usage"}

(* The interaction types of the raw events: a resume, a type that never   *)
(* stops usage, a stop trigger, the raw spelling the resolver normalises, *)
(* and a string that is no member of the enum.                            *)
RawEventTypes ==
    {ACTIVITY_RESUMED, USER_INTERACTION, ACTIVITY_PAUSED,
     "Screen Non-interactive", "Unknown Interaction"}

(* A raw row; row is the line of the file it was read from. *)
RawEvent(type, timestamp, row) ==
    [interaction_type |-> type, event_timestamp |-> timestamp, row |-> row]

stop_usage_types(opts) ==
    opts.same_app_interaction_types_to_stop_usage_at
        \cup opts.other_interaction_types_to_stop_usage_at

get_event_priority(event_type, stop_types) ==
    IF event_type = ACTIVITY_RESUMED THEN 0
    ELSE IF event_type \in stop_types THEN 2
    ELSE 1

get_priority_for_index(d, idx, stop_types) ==
    LET raw_str == d[idx].interaction_type
        interaction_type_str ==
            IF raw_str = "Screen Non-interactive" THEN "Screen Non-Interactive"
            ELSE raw_str
    IN  IF interaction_type_str \in InteractionType
        THEN get_event_priority(interaction_type_str, stop_types)
        ELSE 3

(* df.duplicated(subset=[timestamp_column], keep=False) and the group of  *)
(* row indices that share the row's timestamp.                            *)
duplicate_indices_group(d, idx) ==
    {j \in DOMAIN d : d[j].event_timestamp = d[idx].event_timestamp}

duplicated(d, idx) == Cardinality(duplicate_indices_group(d, idx)) > 1

(* The position i of idx in sorted(group, key=get_priority_for_index):    *)
(* the sort is stable and the group lists its indices in ascending order. *)
sorted_position(d, idx, stop_types) ==
    Cardinality({j \in duplicate_indices_group(d, idx) :
        \/ get_priority_for_index(d, j, stop_types)
               < get_priority_for_index(d, idx, stop_types)
        \/ /\ get_priority_for_index(d, j, stop_types)
                  = get_priority_for_index(d, idx, stop_types)
           /\ j < idx})

(* str(timestamp) and pd.to_datetime of it: seconds and the nine digits   *)
(* of the fraction.                                                       *)
timestamp_str(timestamp) ==
    <<timestamp \div NanosecondsPerSecond, timestamp % NanosecondsPerSecond>>

to_datetime(str) == str[1] * NanosecondsPerSecond + str[2]

(* The timestamp the loop leaves in row idx *)
unaligned_timestamp(d, idx, stop_types) ==
    IF duplicated(d, idx)
    THEN to_datetime(timestamp_str(d[idx].event_timestamp))
             - (sorted_position(d, idx, stop_types) + 1)
    ELSE d[idx].event_timestamp

(* sort_values(timestamp_column).reset_index(drop=True): the default sort *)
(* is not stable, so rows of one instant come out in any order.           *)
sort_values(d) ==
    {[k \in DOMAIN d |-> d[perm[k]]] :
        perm \in {f \in [DOMAIN d -> DOMAIN d] :
                    /\ \A a, b \in DOMAIN d : a # b => f[a] # f[b]
                    /\ \A a, b \in DOMAIN d :
                        a < b => d[f[a]].event_timestamp <= d[f[b]].event_timestamp}}

unalign_duplicate_timestamps(d, opts) ==
    LET df_copy == [idx \in DOMAIN d |->
                       [d[idx] EXCEPT !.event_timestamp =
                            unaligned_timestamp(d, idx, stop_usage_types(opts))]]
    IN  sort_values(df_copy)

InitUnalign ==
    /\ df = <<>>
    /\ columns = {}
    /\ options \in OptionChoices
    /\ pc = "raw"
    /\ error = NoError
    /\ df_arg = <<>>
    /\ result = <<>>
    /\ current_data_primary_timezone = NoTimezone
    /\ stats = ProcessingStats
    /\ file_index = 0
    /\ signals = NoSignals
    /\ stages = <<>>
    /\ preprocessed_data_save_folder = NoFolder
    /\ outputs = <<>>
    /\ now = 0

(* One more row of the raw file; the file's rows come in any order. *)
ReadRawEvent ==
    /\ pc = "raw"
    /\ Len(df) < MaxRawEvents
    /\ \E type \in RawEventTypes, timestamp \in UnalignInstants :
        df' = Append(df, RawEvent(type, timestamp, Len(df) + 1))
    /\ UNCHANGED <<columns, options, pc, error, df_arg, result, current_data_primary_timezone, stats, file_index, signals, stages, preprocessed_data_save_folder, outputs, now>>

(* unalign_duplicate_event_timestamps *)
UnalignDuplicateEventTimestamps ==
    /\ pc = "raw"
    /\ df # <<>>
    /\ options.correct_duplicate_event_timestamps
    /\ \E df_copy \in unalign_duplicate_timestamps(df, options) :
        df' = df_copy
    /\ df_arg' = df
    /\ pc' = "unaligned"
    /\ UNCHANGED <<columns, options, error, result, current_data_primary_timezone, stats, file_index, signals, stages, preprocessed_data_save_folder, outputs, now>>

NextUnalign ==
    \/ ReadRawEvent
    \/ UnalignDuplicateEventTimestamps

SpecUnalign == InitUnalign /\ [][NextUnalign]_vars

(* C9: after the resolver the event instants are strictly increasing,     *)
(* hence unique, whatever instants the input held.                        *)
C9_StrictlyIncreasingInstants ==
    pc = "unaligned" =>
        \A j, k \in DOMAIN df :
            j < k => df[j].event_timestamp < df[k].event_timestamp

(* The instant the resolver left in the row read from line row *)
ResolvedInstant(row) ==
    (CHOOSE r \in {df[k] : k \in DOMAIN df} : r.row = row).event_timestamp

(* C10: within a group of events that shared one instant, the resolved    *)
(* instants follow the order Resumed, other, stop trigger, unknown: an    *)
(* event of an earlier class ends at an earlier instant than an event of  *)
(* a later class it was tied with.                                        *)
C10_ResumedFirstInGroup ==
    pc = "unaligned" =>
        \A a, b \in DOMAIN df_arg :
            /\ df_arg[a].event_timestamp = df_arg[b].event_timestamp
            /\ get_priority_for_index(df_arg, a, stop_usage_types(options))
                   < get_priority_for_index(df_arg, b, stop_usage_types(options))
            => ResolvedInstant(a) < ResolvedInstant(b)

----------------------------------------------------------------------------
(* Properties of the duration rule of process_valid_app_usage (Spec) *)

(* C11: in the table the Valid pass returns, a usage row with both        *)
(* endpoints has duration_seconds = stop - start when that is at least    *)
(* minimum_usage_duration and a null duration when it is below; every     *)
(* resume for which a stop was chosen is in the table as a usage row      *)
(* whatever its duration; a row without both endpoints has no duration.   *)
C11_DurationOrNullRowKept ==
    Returned("Valid") =>
        /\ \A k \in DOMAIN df :
            /\ (df[k].interaction_type = APP_USAGE /\ HasInterval(k)) =>
                 df[k].duration_seconds =
                     (IF df[k].stop_timestamp - df[k].start_timestamp
                             >= options.minimum_usage_duration
                      THEN df[k].stop_timestamp - df[k].start_timestamp
                      ELSE None)
            /\ ~HasInterval(k) => df[k].duration_seconds = None
        /\ \A i \in Resumes("Valid") :
            TimestampToUse("Valid", i) # NaT =>
                \E k \in Emitted(i) :
                    /\ df[k].interaction_type = APP_USAGE
                    /\ df[k].stop_timestamp = TimestampToUse("Valid", i)

(* A returned Valid table with a usage row whose duration was nulled, one *)
(* whose duration equals the minimum and is kept, and a row without stop. *)
C11_Witness ==
    /\ Returned("Valid")
    /\ options.minimum_usage_duration > 0
    /\ \E k \in DOMAIN df :
        /\ df[k].interaction_type = APP_USAGE /\ HasInterval(k)
        /\ df[k].stop_timestamp - df[k].start_timestamp < options.minimum_usage_duration
        /\ df[k].duration_seconds = None
    /\ \E k \in DOMAIN df :
        /\ df[k].interaction_type = APP_USAGE /\ HasInterval(k)
        /\ df[k].duration_seconds = options.minimum_usage_duration
    /\ \E k \in DOMAIN df : ~HasInterval(k)

----------------------------------------------------------------------------
(* AppUsagePreprocessor.add_app_usage_details: the engagement metrics of  *)
(* the usage rows, and the stage of the per-file run that calls it.       *)

MaxUsageRows == 3

UsageLength == 60

(* Seconds between the end of a row and the start of the next one: not    *)
(* over 30 s, over 30 s but not over the custom window, over an hour.     *)
DetailGaps == {30, 300, 7300}

(* The interaction types of the rows the stage sees: the two usage types, *)
(* a member of the enum that is no usage, a string outside the enum.      *)
DetailRowTypes ==
    {APP_USAGE, FILTERED_APP_USAGE, END_OF_USAGE_MISSING, "Unknown Interaction"}

(* A row of the interval table before the stage: no engagement columns. *)
UsageRow(type, app, timestamp, start, stop) ==
    [interaction_type |-> type, app_package_name |-> app,
     event_timestamp |-> timestamp,
     start_timestamp |-> start, stop_timestamp |-> stop,
     valid_app_new_engage_30s |-> None, valid_app_new_engage_custom |-> None,
     valid_app_switched_app |-> None, valid_app_usage_time_gap_hours |-> None,
     any_app_new_engage_30s |-> None, any_app_new_engage_custom |-> None,
     any_app_switched_app |-> None, any_app_usage_time_gap_hours |-> None]

(* columns_defaults: 0 in the any_app columns of the usage rows of both   *)
(* kinds and in the valid_app columns of the APP_USAGE rows.              *)
set_detail_defaults(row) ==
    LET any_row == IF row.interaction_type \in {APP_USAGE, FILTERED_APP_USAGE}
                   THEN [row EXCEPT !.any_app_new_engage_30s = 0,
                                    !.any_app_new_engage_custom = 0,
                                    !.any_app_switched_app = 0,
                                    !.any_app_usage_time_gap_hours = 0]
                   ELSE row
    IN  IF row.interaction_type = APP_USAGE
        THEN [any_row EXCEPT !.valid_app_new_engage_30s = 0,
                             !.valid_app_new_engage_custom = 0,
                             !.valid_app_switched_app = 0,
                             !.valid_app_usage_time_gap_hours = 0]
        ELSE any_row

(* is_valid_interaction of _process_row_app_usage_details: a string that  *)
(* is no usage type is no valid interaction, member of the enum or not.   *)
is_valid_interaction(current_interaction_type) ==
    current_interaction_type \in {APP_USAGE, FILTERED_APP_USAGE}

(* first_app_set when the loop reaches row idx: set by the first usage    *)
(* row of either kind before it.                                          *)
first_app_set(d, idx) ==
    \E j \in DOMAIN d : j < idx /\ is_valid_interaction(d[j].interaction_type)

(* app_usage_row_indices: the indices of the APP_USAGE rows *)
app_usage_row_indices(d) ==
    {j \in DOMAIN d : d[j].interaction_type = APP_USAGE}

(* Mutant of _set_first_app_use_engagement_values: the valid_app flags of *)
(* a first APP_USAGE row are left at their defaults.                      *)
set_first_any_only(row, is_app_usage) ==
    IF ~is_app_usage
    THEN [row EXCEPT !.any_app_new_engage_custom = 1, !.any_app_new_engage_30s = 1]
    ELSE row

_set_first_app_use_engagement_values(row, is_app_usage) ==
    IF ~is_app_usage
    THEN [row EXCEPT !.any_app_new_engage_custom = 1, !.any_app_new_engage_30s = 1]
    ELSE [row EXCEPT !.valid_app_new_engage_custom = 1, !.valid_app_new_engage_30s = 1]

(* _traverse_app_usage_backward_rows from backward_index down: row is    *)
(* the row at index as written so far; the nearest earlier APP_USAGE row  *)
(* with a stop gives the valid_app metrics.                               *)
RECURSIVE _traverse_app_usage_backward_rows(_, _, _, _, _)
_traverse_app_usage_backward_rows(d, index, backward_index, row, opts) ==
    IF backward_index < 1 THEN row
    ELSE IF d[backward_index].interaction_type # APP_USAGE
    THEN _traverse_app_usage_backward_rows(d, index, backward_index - 1, row, opts)
    ELSE
    LET backward_row == d[backward_index]
        switched == IF d[index].app_package_name # backward_row.app_package_name
                    THEN [row EXCEPT !.valid_app_switched_app = 1] ELSE row
        start_ts == d[index].start_timestamp
        stop_ts == backward_row.stop_timestamp
        time_since_last_valid_app_use == start_ts - stop_ts
    IN  IF start_ts = NaT \/ stop_ts = NaT
        THEN _traverse_app_usage_backward_rows(d, index, backward_index - 1,
                                               switched, opts)
        ELSE [switched EXCEPT
                !.valid_app_new_engage_30s =
                    IF time_since_last_valid_app_use > 30 THEN 1 ELSE @,
                !.valid_app_new_engage_custom =
                    IF time_since_last_valid_app_use > opts.custom_app_engagement_duration
                    THEN 1 ELSE @,
                !.valid_app_usage_time_gap_hours =
                    time_since_last_valid_app_use \div 3600]

(* isinstance(backward_interaction_type, InteractionType): the column     *)
(* holds members of the enum where rename_interaction_types, the filter   *)
(* labelling or the reconstructor wrote the type, plain strings elsewhere.*)
is_InteractionType(interaction_type) == interaction_type \in InteractionType

(* _traverse_backward_rows from backward_index down: the nearest earlier  *)
(* usage row of either kind with a stop gives the any_app metrics, and    *)
(* for an APP_USAGE row the valid_app scan follows.                       *)
RECURSIVE _traverse_backward_rows(_, _, _, _, _)
_traverse_backward_rows(d, index, backward_index, row, opts) ==
    IF backward_index < 1 THEN row
    ELSE IF \/ ~is_InteractionType(d[backward_index].interaction_type)
            \/ d[backward_index].interaction_type
                   \notin {APP_USAGE, FILTERED_APP_USAGE}
    THEN _traverse_backward_rows(d, index, backward_index - 1, row, opts)
    ELSE
    LET backward_row == d[backward_index]
        switched == IF d[index].app_package_name # backward_row.app_package_name
                    THEN [row EXCEPT !.any_app_switched_app = 1] ELSE row
        start_ts == d[index].start_timestamp
        stop_ts == backward_row.stop_timestamp
        time_since_last_any_app_use == start_ts - stop_ts
        any_set == [switched EXCEPT
                       !.any_app_new_engage_30s =
                           IF time_since_last_any_app_use > 30 THEN 1 ELSE @,
                       !.any_app_new_engage_custom =
                           IF time_since_last_any_app_use
                                  > opts.custom_app_engagement_duration
                           THEN 1 ELSE @,
                       !.any_app_usage_time_gap_hours =
                           time_since_last_any_app_use \div 3600]
    IN  IF start_ts = NaT \/ stop_ts = NaT
        THEN _traverse_backward_rows(d, index, backward_index - 1, switched, opts)
        ELSE IF d[index].interaction_type = APP_USAGE
        THEN _traverse_app_usage_backward_rows(d, index, index - 1, any_set, opts)
        ELSE any_set

(* Mutant of _process_row_app_usage_details: a first APP_USAGE row that   *)
(* follows filtered usage is scanned like any later row.                  *)
process_row_without_first_valid(d, idx, row, opts) ==
    LET current_interaction_type == d[idx].interaction_type
        is_app_usage == current_interaction_type = APP_USAGE
    IN  IF ~first_app_set(d, idx)
        THEN IF is_valid_interaction(current_interaction_type)
             THEN _set_first_app_use_engagement_values(row, is_app_usage)
             ELSE row
        ELSE IF idx > 1 /\ is_valid_interaction(current_interaction_type)
        THEN _traverse_backward_rows(d, idx, idx - 1, row, opts)
        ELSE row

(* _process_row_app_usage_details for the row at idx (1-based here, so    *)
(* index > 0 reads idx > 1); row is that row with its defaults.           *)
_process_row_app_usage_details(d, idx, row, opts) ==
    LET current_interaction_type == d[idx].interaction_type
        is_app_usage == current_interaction_type = APP_USAGE
        is_first_valid_app ==
            /\ idx \in app_usage_row_indices(d)
            /\ \A j \in app_usage_row_indices(d) : idx <= j
    IN  IF ~first_app_set(d, idx)
        THEN IF is_valid_interaction(current_interaction_type)
             THEN _set_first_app_use_engagement_values(row, is_app_usage)
             ELSE row
        ELSE IF idx > 1 /\ is_valid_interaction(current_interaction_type)
        THEN IF is_first_valid_app /\ is_app_usage
             THEN _set_first_app_use_engagement_values(row, TRUE)
             ELSE _traverse_backward_rows(d, idx, idx - 1, row, opts)
        ELSE row

(* add_app_usage_details: the defaults, then the loop over the rows; each *)
(* iteration writes its own row only and reads the types, apps and        *)
(* timestamps of the others, which the stage never writes.                *)
add_app_usage_details(d, opts) ==
    [idx \in DOMAIN d |->
        _process_row_app_usage_details(d, idx, set_detail_defaults(d[idx]), opts)]

(* The instant the last row of the table ends at *)
end_of_table(d) ==
    IF d = <<>> THEN 0
    ELSE IF d[Len(d)].stop_timestamp # NaT THEN d[Len(d)].stop_timestamp
    ELSE d[Len(d)].event_timestamp

InitDetails ==
    /\ df = <<>>
    /\ columns = {START_TIMESTAMP, STOP_TIMESTAMP}
    /\ options = ChronicleAndroidRawDataPreprocessingOptions(
                     POSSIBLE_SAME_APP_INTERACTION_TYPES_TO_STOP_USAGE_AT,
                     POSSIBLE_OTHER_INTERACTION_TYPES_TO_STOP_USAGE_AT)
    /\ pc = "usage_rows"
    /\ error = NoError
    /\ df_arg = <<>>
    /\ result = <<>>
    /\ current_data_primary_timezone = NoTimezone
    /\ stats = ProcessingStats
    /\ file_index = 0
    /\ signals = NoSignals
    /\ stages = <<>>
    /\ preprocessed_data_save_folder = NoFolder
    /\ outputs = <<>>
    /\ now = 0

(* One more row of the table the reconstructor left, in time order: a    *)
(* usage row has start and stop, another row has neither.                 *)
AddUsageRow ==
    /\ pc = "usage_rows"
    /\ Len(df) < MaxUsageRows
    /\ \E type \in DetailRowTypes, app \in Apps, gap \in DetailGaps :
        LET timestamp == end_of_table(df) + gap
        IN  df' = Append(df,
                IF type \in {APP_USAGE, FILTERED_APP_USAGE}
                THEN UsageRow(type, app, timestamp, timestamp, timestamp + UsageLength)
                ELSE UsageRow(type, app, timestamp, NaT, NaT))
    /\ UNCHANGED <<columns, options, pc, error, df_arg, result, current_data_primary_timezone, stats, file_index, signals, stages, preprocessed_data_save_folder, outputs, now>>

(* add_app_usage_detail_columns: add_app_usage_details works on           *)
(* df.reset_index(drop=True), a new frame, and returns it; the caller     *)
(* does not assign what the call returns.                                 *)
AddAppUsageDetailColumns ==
    /\ pc = "usage_rows"
    /\ df # <<>>
    /\ result' = add_app_usage_details(df, options)
    /\ df_arg' = df
    /\ df' = df
    /\ pc' = "details_added"
    /\ UNCHANGED <<columns, options, error, current_data_primary_timezone, stats, file_index, signals, stages, preprocessed_data_save_folder, outputs, now>>

NextDetails ==
    \/ AddUsageRow
    \/ AddAppUsageDetailColumns

SpecDetails == InitDetails /\ [][NextDetails]_vars

(* The usage rows of the table the stage was handed *)
UsageRows ==
    {k \in DOMAIN df_arg : df_arg[k].interaction_type \in {APP_USAGE, FILTERED_APP_USAGE}}

ValidUsageRows == {k \in DOMAIN df_arg : df_arg[k].interaction_type = APP_USAGE}

IsFirstOf(k, S) == k \in S /\ \A j \in S : k <= j

(* C12: in the table add_app_usage_details returns, the first APP_USAGE   *)
(* row has valid_app_new_engage_30s = 1 and valid_app_new_engage_custom   *)
(* = 1, whatever rows precede it.                                         *)
C12_FirstValidRowNewEngagement ==
    pc = "details_added" =>
        \A k \in DOMAIN result :
            IsFirstOf(k, ValidUsageRows) =>
                /\ result[k].valid_app_new_engage_30s = 1
                /\ result[k].valid_app_new_engage_custom = 1

(* The first APP_USAGE row, marked, 30 s after a filtered usage row and   *)
(* with a row of unknown type before that.                                *)
C12_Witness ==
    /\ pc = "details_added"
    /\ \E k \in DOMAIN result :
        /\ IsFirstOf(k, ValidUsageRows)
        /\ k = 3
        /\ df_arg[1].interaction_type = "Unknown Interaction"
        /\ df_arg[2].interaction_type = FILTERED_APP_USAGE
        /\ df_arg[k].start_timestamp - df_arg[2].stop_timestamp = 30
        /\ result[k].valid_app_new_engage_30s = 1
        /\ result[k].valid_app_new_engage_custom = 1

(* C13 as claimed: the first usage row of either kind has                 *)
(* any_app_new_engage_30s = 1 and any_app_new_engage_custom = 1 in the    *)
(* returned table.                                                        *)
C13_FirstUsageRowAnyEngagement ==
    pc = "details_added" =>
        \A k \in DOMAIN result :
            IsFirstOf(k, UsageRows) =>
                /\ result[k].any_app_new_engage_30s = 1
                /\ result[k].any_app_new_engage_custom = 1

(* The nearest usage row before row k *)
PreviousUsageRow(k) ==
    CHOOSE p \in UsageRows : p < k /\ \A j \in UsageRows : j < k => j <= p

Flag(condition) == IF condition THEN 1 ELSE 0

(* C14 as claimed: every usage row with an earlier usage row has its      *)
(* any_app metrics computed against the nearest earlier usage row.        *)
C14_AnyMetricsAgainstPreviousUsage ==
    pc = "details_added" =>
        \A k \in UsageRows :
            (\E p \in UsageRows : p < k) =>
                LET p == PreviousUsageRow(k)
                    gap == df_arg[k].start_timestamp - df_arg[p].stop_timestamp
                IN  /\ result[k].any_app_switched_app =
                         Flag(df_arg[k].app_package_name # df_arg[p].app_package_name)
                    /\ result[k].any_app_new_engage_30s = Flag(gap > 30)
                    /\ result[k].any_app_new_engage_custom =
                         Flag(gap > options.custom_app_engagement_duration)
                    /\ result[k].any_app_usage_time_gap_hours = gap \div 3600

(* C15 as claimed: after the stage the table the preprocessor holds is    *)
(* the table add_app_usage_details computed.                              *)
C15_HeldTableHasEngagementColumns ==
    pc = "details_added" => df = result

----------------------------------------------------------------------------
(* AppUsagePreprocessor.add_app_usage_flags: the flag annotator.  A time  *)
(* gap is held in hundredths of an hour (the column is rounded to two     *)
(* decimals), a duration in minutes, a threshold in hours.                *)

MaxFlagRows == 1

MaxLadderLength == 2

ThresholdValues == {1, 12}

(* The ladders an operator can supply: any order, repeats, none at all, *)
(* and the default.                                                     *)
Ladders ==
    UNION {[1..n -> ThresholdValues] : n \in 0..MaxLadderLength}
        \cup {<<1, 6, 12, 24>>}

(* Gaps of 0.99 h, 1 h and 13 h and durations of 59 min, 1 h and 13 h, *)
(* or no value.                                                        *)
FlagTimeGaps == {None, 99, 100, 1300}

FlagDurations == {None, 59, 60, 780}

FlagRow(time_gap, duration) ==
    [data_time_gap_hours |-> time_gap, duration_minutes |-> duration,
     any_app_usage_flags |-> None]

(* Mutant of sorted_reverse: ascending order *)
RECURSIVE sorted_ascending(_)
sorted_ascending(thresholds) ==
    IF thresholds = <<>> THEN <<>>
    ELSE LET i == CHOOSE i \in DOMAIN thresholds :
                      \A j \in DOMAIN thresholds : thresholds[i] <= thresholds[j]
         IN  <<thresholds[i]>> \o
             sorted_ascending(SubSeq(thresholds, 1, i - 1)
                                  \o SubSeq(thresholds, i + 1, Len(thresholds)))

(* sorted(thresholds, reverse=True) *)
RECURSIVE sorted_reverse(_)
sorted_reverse(thresholds) ==
    IF thresholds = <<>> THEN <<>>
    ELSE LET i == CHOOSE i \in DOMAIN thresholds :
                      \A j \in DOMAIN thresholds : thresholds[i] >= thresholds[j]
         IN  <<thresholds[i]>> \o
             sorted_reverse(SubSeq(thresholds, 1, i - 1)
                                \o SubSeq(thresholds, i + 1, Len(thresholds)))

(* The inner loop over the sorted thresholds: the label of the first one  *)
(* the value reaches, then break; a comparison with NaN is False.         *)
(* per_hour is the number of units of the value in one hour.              *)
RECURSIVE first_flag(_, _, _, _)
first_flag(value, sorted_thresholds, per_hour, axis) ==
    IF sorted_thresholds = <<>> THEN <<>>
    ELSE IF value # None /\ value >= Head(sorted_thresholds) * per_hour
    THEN <<[threshold |-> Head(sorted_thresholds), axis |-> axis]>>
    ELSE first_flag(value, Tail(sorted_thresholds), per_hour, axis)

(* _get_app_usage_flags for one row: the time gap flag, then the duration *)
(* flag (durations_minutes / 60 against thresholds in hours).             *)
_get_app_usage_flags(time_gap, duration_minutes, time_gap_thresholds, duration_thresholds) ==
    first_flag(time_gap, sorted_reverse(time_gap_thresholds), 100, "HR TIME GAP")
        \o first_flag(duration_minutes, sorted_reverse(duration_thresholds), 60,
                      "HR APP USAGE")

(* add_app_usage_flags: an empty ladder is replaced by [3, 6, 12, 24];    *)
(* the flags column is written into the table it was handed.              *)
add_app_usage_flags(d, opts) ==
    LET thresholds_to_use ==
            IF opts.long_data_time_gap_thresholds = <<>> THEN <<3, 6, 12, 24>>
            ELSE opts.long_data_time_gap_thresholds
        duration_thresholds_to_use ==
            IF opts.long_usage_duration_thresholds = <<>> THEN <<3, 6, 12, 24>>
            ELSE opts.long_usage_duration_thresholds
    IN  [k \in DOMAIN d |->
            [d[k] EXCEPT !.any_app_usage_flags =
                _get_app_usage_flags(d[k].data_time_gap_hours, d[k].duration_minutes,
                                     thresholds_to_use, duration_thresholds_to_use)]]

InitFlags ==
    /\ df = <<>>
    /\ columns = {START_TIMESTAMP, STOP_TIMESTAMP}
    /\ \E gaps \in Ladders, durations \in Ladders :
        options = [ChronicleAndroidRawDataPreprocessingOptions(
                       POSSIBLE_SAME_APP_INTERACTION_TYPES_TO_STOP_USAGE_AT,
                       POSSIBLE_OTHER_INTERACTION_TYPES_TO_STOP_USAGE_AT)
                      EXCEPT !.long_data_time_gap_thresholds = gaps,
                             !.long_usage_duration_thresholds = durations]
    /\ pc = "flag_rows"
    /\ error = NoError
    /\ df_arg = <<>>
    /\ result = <<>>
    /\ current_data_primary_timezone = NoTimezone
    /\ stats = ProcessingStats
    /\ file_index = 0
    /\ signals = NoSignals
    /\ stages = <<>>
    /\ preprocessed_data_save_folder = NoFolder
    /\ outputs = <<>>
    /\ now = 0

AddFlagRow ==
    /\ pc = "flag_rows"
    /\ Len(df) < MaxFlagRows
    /\ \E time_gap \in FlagTimeGaps, duration \in FlagDurations :
        df' = Append(df, FlagRow(time_gap, duration))
    /\ UNCHANGED <<columns, options, pc, error, df_arg, result, current_data_primary_timezone, stats, file_index, signals, stages, preprocessed_data_save_folder, outputs, now>>

(* mark_app_usage_flags *)
MarkAppUsageFlags ==
    /\ pc = "flag_rows"
    /\ df # <<>>
    /\ df_arg' = df
    /\ df' = add_app_usage_flags(df, options)
    /\ result' = None
    /\ pc' = "flags_marked"
    /\ UNCHANGED <<columns, options, error, current_data_primary_timezone, stats, file_index, signals, stages, preprocessed_data_save_folder, outputs, now>>

NextFlags ==
    \/ AddFlagRow
    \/ MarkAppUsageFlags

SpecFlags == InitFlags /\ [][NextFlags]_vars

(* The thresholds of the ladder in use: the supplied one, or 3, 6, 12, 24 *)
(* when none was supplied.                                                *)
LadderInUse(ladder) ==
    IF ladder = <<>> THEN {3, 6, 12, 24} ELSE {ladder[i] : i \in DOMAIN ladder}

(* The labels the claim expects on an axis: none for a null value or a    *)
(* value below every threshold, else the largest threshold reached.       *)
ExpectedFlags(value, ladder, per_hour, axis) ==
    LET reached == {t \in LadderInUse(ladder) : value # None /\ value >= t * per_hour}
    IN  IF reached = {} THEN {}
        ELSE {[threshold |-> CHOOSE t \in reached : \A u \in reached : u <= t,
               axis |-> axis]}

FlagsOnAxis(flags, axis) == SelectSeq(flags, LAMBDA f : f.axis = axis)

(* C16: every row gets at most one gap label and at most one duration     *)
(* label, and a label names the largest threshold of the ladder that the  *)
(* row's value reaches, in whatever order the ladder was supplied.        *)
C16_LargestThresholdLabel ==
    pc = "flags_marked" =>
        \A k \in DOMAIN df :
            LET gap_flags == FlagsOnAxis(df[k].any_app_usage_flags, "HR TIME GAP")
                duration_flags == FlagsOnAxis(df[k].any_app_usage_flags, "HR APP USAGE")
            IN  /\ Len(gap_flags) <= 1 /\ Len(duration_flags) <= 1
                /\ Len(df[k].any_app_usage_flags) = Len(gap_flags) + Len(duration_flags)
                /\ {gap_flags[i] : i \in DOMAIN gap_flags} =
                       ExpectedFlags(df_arg[k].data_time_gap_hours,
                                     options.long_data_time_gap_thresholds, 100,
                                     "HR TIME GAP")
                /\ {duration_flags[i] : i \in DOMAIN duration_flags} =
                       ExpectedFlags(df_arg[k].duration_minutes,
                                     options.long_usage_duration_thresholds, 60,
                                     "HR APP USAGE")

(* A 13 h duration labelled 12 under the default ladder, with a gap       *)
(* below every threshold of an ascending ladder and so without a label.   *)
C16_Witness ==
    /\ pc = "flags_marked"
    /\ options.long_usage_duration_thresholds = <<1, 6, 12, 24>>
    /\ options.long_data_time_gap_thresholds = <<1, 12>>
    /\ \E k \in DOMAIN df :
        /\ df_arg[k].duration_minutes = 780
        /\ df_arg[k].data_time_gap_hours = 99
        /\ df[k].any_app_usage_flags = <<[threshold |-> 12, axis |-> "HR APP USAGE"]>>

(***************************************************************************)
(* Timezone handling: TimezonePreprocessor.determine_primary_timezone and  *)
(* apply_timezone_handling, called for each file of a folder by the one    *)
(* TimezonePreprocessor the main preprocessor builds in __init__.          *)
(*                                                                         *)
(* A row keeps the value of its timezone field (NoTimezone when the field  *)
(* is empty or the file has no such column) and tz, the zone its           *)
(* event_timestamp carries (NoTimezone for a timestamp without offset).    *)
(* The timestamps of one file are written in one format: all of them       *)
(* carry the same offset or none does.                                     *)
(***************************************************************************)
MaxTimezoneRows == 2
MaxFiles == 2
Timezones == {"America/Chicago", "Europe/Berlin"}
Offsets == {"UTC-05:00"}

(* Column.TIMEZONE *)
TIMEZONE == "timezone"

TimezoneRow(timezone, tz) == [timezone |-> timezone, tz |-> tz]

(* The options of a run of the timezone stage. *)
TimezoneOptionChoices ==
    {[ChronicleAndroidRawDataPreprocessingOptions(
          POSSIBLE_SAME_APP_INTERACTION_TYPES_TO_STOP_USAGE_AT,
          POSSIBLE_OTHER_INTERACTION_TYPES_TO_STOP_USAGE_AT)
        EXCEPT !.timezone_handling_option = policy,
               !.selected_timezone = selected] :
        policy \in {REMOVE_ALL_DATA_WITHOUT_SELECTED_TIMEZONE,
                    CONVERT_ALL_DATA_TO_SELECTED_TIMEZONE,
                    REMOVE_ALL_DATA_WITHOUT_PRIMARY_TIMEZONE_PER_FILE,
                    CONVERT_ALL_DATA_TO_PRIMARY_TIMEZONE_PER_FILE},
        selected \in {NoTimezone, "America/Chicago"}}

(* df[Column.TIMEZONE].value_counts(dropna=True).index[0]: a most frequent *)
(* value of the timezone field; the order of equally frequent values is    *)
(* not fixed, so every one of them is a possible outcome.                  *)
value_counts_first(d) ==
    LET values == {d[i].timezone : i \in DOMAIN d} \ {NoTimezone}
        count(v) == Cardinality({i \in DOMAIN d : d[i].timezone = v})
    IN  {v \in values : \A w \in values : count(w) <= count(v)}

(* timezones_series.mode()[0]: the most frequent zone carried by the       *)
(* timestamps (one zone at most in a file).                                *)
timezones_series_mode(d) ==
    LET values == {d[i].tz : i \in DOMAIN d} \ {NoTimezone}
        count(v) == Cardinality({i \in DOMAIN d : d[i].tz = v})
    IN  {v \in values : \A w \in values : count(w) <= count(v)}

(* determine_primary_timezone: the values it can leave in                  *)
(* self.current_data_primary_timezone, given the value found there.        *)
determine_primary_timezone(d, cols, current) ==
    IF TIMEZONE \in cols /\ value_counts_first(d) # {}
    THEN value_counts_first(d)
    ELSE IF timezones_series_mode(d) # {}
    THEN timezones_series_mode(d)
    ELSE IF current = NoTimezone
    THEN {"UTC"}
    ELSE {current}

(* _convert_to_timezone *)
_convert_to_timezone(d, cols, timezone) ==
    [i \in DOMAIN d |->
        [d[i] EXCEPT !.tz = timezone,
                     !.timezone = IF TIMEZONE \in cols THEN timezone ELSE @]]

(* df_copy[mask], mask = (df_copy[timezone_column] == timezone) & notna() *)
rows_in_timezone(d, timezone) ==
    SelectSeq(d, LAMBDA row : row.timezone = timezone /\ row.timezone # NoTimezone)

(* What a call of a stage gives back: a table, or nothing when it raised. *)
Returns(d) == [returned |-> TRUE, df |-> d]
NothingReturned == [returned |-> FALSE, df |-> <<>>]

(* The branch of a policy that needs the operator-selected timezone,     *)
(* without its test of the selected timezone.                             *)
selected_timezone_branch_unchecked(d, cols, opts, remove) ==
    IF remove /\ TIMEZONE \notin cols
    THEN [error |-> Raise("KeyError", 0), result |-> NothingReturned]
    ELSE [error |-> NoError,
          result |-> Returns(_convert_to_timezone(
                        IF remove THEN rows_in_timezone(d, opts.selected_timezone) ELSE d,
                        cols, opts.selected_timezone))]

(* The branch of a policy that needs the operator-selected timezone. *)
selected_timezone_branch(d, cols, opts, remove) ==
    IF opts.selected_timezone = NoTimezone
    THEN [error |-> Raise("MissingTimezone", 0), result |-> NothingReturned]
    ELSE IF remove /\ TIMEZONE \notin cols
    THEN [error |-> Raise("KeyError", 0), result |-> NothingReturned]
    ELSE [error |-> NoError,
          result |-> Returns(_convert_to_timezone(
                        IF remove THEN rows_in_timezone(d, opts.selected_timezone) ELSE d,
                        cols, opts.selected_timezone))]

(* The branch of a per-file policy. *)
primary_timezone_branch(d, cols, primary_timezone, remove) ==
    IF primary_timezone = NoTimezone
    THEN [error |-> Raise("NoPrimaryTimezoneDetected", 0), result |-> NothingReturned]
    ELSE IF remove /\ TIMEZONE \notin cols
    THEN [error |-> Raise("KeyError", 0), result |-> NothingReturned]
    ELSE [error |-> NoError,
          result |-> Returns(_convert_to_timezone(
                        IF remove THEN rows_in_timezone(d, primary_timezone) ELSE d,
                        cols, primary_timezone))]

(* apply_timezone_handling, after determine_primary_timezone has left     *)
(* primary_timezone in self.current_data_primary_timezone.                *)
apply_timezone_handling(d, cols, opts, primary_timezone) ==
    IF opts.timezone_handling_option = REMOVE_ALL_DATA_WITHOUT_SELECTED_TIMEZONE
    THEN selected_timezone_branch(d, cols, opts, TRUE)
    ELSE IF opts.timezone_handling_option = CONVERT_ALL_DATA_TO_SELECTED_TIMEZONE
    THEN selected_timezone_branch(d, cols, opts, FALSE)
    ELSE IF opts.timezone_handling_option = REMOVE_ALL_DATA_WITHOUT_PRIMARY_TIMEZONE_PER_FILE
    THEN primary_timezone_branch(d, cols, primary_timezone, TRUE)
    ELSE IF opts.timezone_handling_option = CONVERT_ALL_DATA_TO_PRIMARY_TIMEZONE_PER_FILE
    THEN primary_timezone_branch(d, cols, primary_timezone, FALSE)
    ELSE [error |-> Raise("InvalidTimezoneOption", 0), result |-> NothingReturned]

InitTimezone ==
    /\ df = <<>>
    /\ columns \in {{}, {TIMEZONE}}
    /\ options \in TimezoneOptionChoices
    /\ pc = "timezone_rows"
    /\ error = NoError
    /\ df_arg = <<>>
    /\ result = NothingReturned
    /\ current_data_primary_timezone = NoTimezone
    /\ stats = ProcessingStats
    /\ file_index = 0
    /\ signals = NoSignals
    /\ stages = <<>>
    /\ preprocessed_data_save_folder = NoFolder
    /\ outputs = <<>>
    /\ now = 0

(* One more row of the file read by pd.read_csv. *)
AddTimezoneRow ==
    /\ pc = "timezone_rows"
    /\ Len(df) < MaxTimezoneRows
    /\ \E timezone \in Timezones \cup {NoTimezone}, tz \in Offsets \cup {NoTimezone} :
        /\ TIMEZONE \notin columns => timezone = NoTimezone
        /\ df # <<>> => tz = df[1].tz
        /\ df' = Append(df, TimezoneRow(timezone, tz))
    /\ UNCHANGED <<columns, options, pc, error, df_arg, result,
                   current_data_primary_timezone, stats, file_index, signals, stages, preprocessed_data_save_folder, outputs, now>>

(* correct_event_timestamp_column's call of apply_timezone_handling; an   *)
(* exception ends the file's run in the except clause of                  *)
(* preprocess_Chronicle_Android_raw_data_file, which marks the error.     *)
ApplyTimezoneHandling ==
    /\ pc = "timezone_rows"
    /\ df # <<>>
    /\ \E primary_timezone \in
            determine_primary_timezone(df, columns, current_data_primary_timezone) :
        LET res == apply_timezone_handling(df, columns, options, primary_timezone)
        IN  /\ current_data_primary_timezone' = primary_timezone
            /\ df_arg' = df
            /\ result' = res.result
            /\ error' = res.error
            /\ df' = IF res.error = NoError THEN res.result.df ELSE df
            /\ pc' = IF res.error = NoError THEN "timezone_applied" ELSE "timezone_failed"
            /\ stats' = IF res.error = NoError THEN stats ELSE mark_error(stats)
    /\ UNCHANGED <<columns, options, file_index, signals, stages, preprocessed_data_save_folder, outputs, now>>

(* The folder loop of preprocess_Chronicle_Android_raw_data_folder goes   *)
(* on to the next file with the same preprocessor objects.                *)
NextFile ==
    /\ pc \in {"timezone_applied", "timezone_failed"}
    /\ file_index < MaxFiles - 1
    /\ file_index' = file_index + 1
    /\ df' = <<>>
    /\ columns' \in {{}, {TIMEZONE}}
    /\ error' = NoError
    /\ pc' = "timezone_rows"
    /\ UNCHANGED <<options, df_arg, result, current_data_primary_timezone, stats, signals, stages, preprocessed_data_save_folder, outputs, now>>

NextTimezone ==
    \/ AddTimezoneRow
    \/ ApplyTimezoneHandling
    \/ NextFile

SpecTimezone == InitTimezone /\ [][NextTimezone]_vars

TimezoneHandled == pc \in {"timezone_applied", "timezone_failed"}

SelectedTimezonePolicies ==
    {REMOVE_ALL_DATA_WITHOUT_SELECTED_TIMEZONE, CONVERT_ALL_DATA_TO_SELECTED_TIMEZONE}

PerFilePolicies ==
    {REMOVE_ALL_DATA_WITHOUT_PRIMARY_TIMEZONE_PER_FILE,
     CONVERT_ALL_DATA_TO_PRIMARY_TIMEZONE_PER_FILE}

(* C17: with the Remove-unless-selected or the Convert-all-to-selected    *)
(* policy and no operator-selected timezone, apply_timezone_handling      *)
(* fails with the MissingTimezone error and returns no table; with a      *)
(* per-file policy it never fails with that error.                        *)
C17_MissingTimezoneOnlyForSelectedPolicies ==
    TimezoneHandled =>
        /\ (/\ options.timezone_handling_option \in SelectedTimezonePolicies
            /\ options.selected_timezone = NoTimezone)
           => (/\ pc = "timezone_failed"
               /\ error.kind = "MissingTimezone"
               /\ result.returned = FALSE)
        /\ options.timezone_handling_option \in PerFilePolicies
           => error.kind # "MissingTimezone"

C17_Witness ==
    /\ pc = "timezone_failed"
    /\ options.timezone_handling_option = CONVERT_ALL_DATA_TO_SELECTED_TIMEZONE
    /\ options.selected_timezone = NoTimezone
    /\ error.kind = "MissingTimezone"
    /\ result.returned = FALSE

(* The file handed to the stage carries no timezone information: no value *)
(* in the timezone field and no offset in any timestamp.                  *)
NoTimezoneInformation(d) ==
    \A i \in DOMAIN d : d[i].timezone = NoTimezone /\ d[i].tz = NoTimezone

(* C18: with a per-file policy, a file whose events carry no timezone     *)
(* information fails with the NoPrimaryTimezoneDetected error.            *)
C18_NoPrimaryTimezoneDetectedRaised ==
    (/\ TimezoneHandled
     /\ options.timezone_handling_option \in PerFilePolicies
     /\ NoTimezoneInformation(df_arg))
    => (/\ pc = "timezone_failed"
        /\ error.kind = "NoPrimaryTimezoneDetected")

(* C19: the primary timezone resolved for a file depends only on that     *)
(* file's own events: it is what determine_primary_timezone gives on a    *)
(* preprocessor that has processed no file, so UTC for a file without     *)
(* timezone information.                                                  *)
C19_PrimaryTimezoneFromOwnEvents ==
    TimezoneHandled =>
        current_data_primary_timezone
            \in determine_primary_timezone(df_arg, columns, NoTimezone)

(***************************************************************************)
(* The outcome of a file without valid usage, in the reconstructor's      *)
(* specification Spec.                                                    *)
(***************************************************************************)

(* The table handed to the valid-usage pass holds no resumable valid-     *)
(* usage event.                                                           *)
NoResumableValidUsage ==
    ~\E j \in DOMAIN df_arg :
        df_arg[j].interaction_type \in {ACTIVITY_RESUMED, ACTIVITY_PAUSED}

(* C20: a table without resumable valid-usage events gives a non-fatal    *)
(* empty-file outcome: the file is counted as empty, not as failed, its   *)
(* processing continues, and the interval table is empty.                 *)
C20_EmptyFileCountedEmptyAndContinues ==
    (Ran("Valid") /\ NoResumableValidUsage)
    => (/\ stats.empty_files = 1
        /\ stats.failed_files = 0
        /\ pc = "valid_done"
        /\ \A i \in DOMAIN df : df[i].interaction_type # APP_USAGE)

(***************************************************************************)
(* A run of the worker thread: PreprocessingThread.run calls              *)
(* preprocess_Chronicle_Android_raw_data_folder, whose loop calls         *)
(* preprocess_Chronicle_Android_raw_data_file for each raw data file and  *)
(* then generates the plots.                                              *)
(*                                                                         *)
(* What the run finds on disk is an input of the step that reads it: the  *)
(* number of raw data files, the content of a file, whether the           *)
(* preprocessed folder exists, whether generate_plots raises.  The        *)
(* content of a file is its table for the timezone stage (empty for an    *)
(* empty CSV) and whether it holds Activity Resumed or Activity Paused    *)
(* events.                                                                *)
(***************************************************************************)
MaxFolderFiles == 2

(* A value of timezone_handling_option that is none of the four policies. *)
InvalidTimezoneOption == 4

(* Path(output_folder) / f"{study_name} {PREPROCESSED_FOLDER_SUFFIX}" *)
StudyPreprocessedFolder == "study Chronicle Android Automatically Preprocessed Data"

(* Path(output_folder) / f"{study_name} {PLOTTED_FOLDER_SUFFIX}" *)
StudyPlottedFolder == "study Chronicle Android Plotted Data"

(* Path(""), the folder preprocess_Chronicle_Android_raw_data_file returns *)
(* when it has saved nothing.                                             *)
EmptyPath == "."

RunOptionChoices ==
    {[ChronicleAndroidRawDataPreprocessingOptions(
          POSSIBLE_SAME_APP_INTERACTION_TYPES_TO_STOP_USAGE_AT,
          POSSIBLE_OTHER_INTERACTION_TYPES_TO_STOP_USAGE_AT)
        EXCEPT !.timezone_handling_option = policy,
               !.selected_timezone = selected,
               !.raw_data_folder = folder,
               !.enable_preprocessing = preprocessing,
               !.enable_plotting = plotting] :
        policy \in {CONVERT_ALL_DATA_TO_SELECTED_TIMEZONE,
                    CONVERT_ALL_DATA_TO_PRIMARY_TIMEZONE_PER_FILE,
                    InvalidTimezoneOption},
        selected \in {NoTimezone, "America/Chicago"},
        folder \in {"", "raw data"},
        preprocessing \in BOOLEAN,
        plotting \in BOOLEAN}

(* The content of a raw data file. *)
FileContents ==
    [df : {<<>>, <<TimezoneRow(NoTimezone, NoTimezone)>>,
           <<TimezoneRow("America/Chicago", NoTimezone)>>},
     has_valid_interactions : BOOLEAN]

(* The calls of preprocess_Chronicle_Android_raw_data_file up to the      *)
(* timezone handling, in the order of the code.                           *)
stages_to_timezone_handling ==
    <<"read_csv", "get_participant_id_from_data", "correct_username_column",
      "rename_interaction_types", "correct_timestamp_column",
      "apply_timezone_handling">>

(* The calls from the timezone handling to the valid-usage pass, with the *)
(* duplicate resolution after the gap annotation.                         *)
stages_with_late_unalign(opts) ==
    <<"mark_data_time_gaps">>
    \o (IF opts.correct_duplicate_event_timestamps
        THEN <<"unalign_duplicate_timestamps">> ELSE <<>>)
    \o <<"remove_selected_interaction_types",
         "mark_data_time_gaps", "create_additional_columns",
         "label_filtered_apps", "process_filtered_app_usage",
         "process_valid_app_usage">>

(* The calls from the timezone handling to the valid-usage pass. *)
stages_to_valid_app_usage(opts) ==
    (IF opts.correct_duplicate_event_timestamps
     THEN <<"unalign_duplicate_timestamps">> ELSE <<>>)
    \o <<"mark_data_time_gaps", "remove_selected_interaction_types",
         "mark_data_time_gaps", "create_additional_columns",
         "label_filtered_apps", "process_filtered_app_usage",
         "process_valid_app_usage">>

(* The calls after the valid-usage pass. *)
stages_to_save ==
    <<"check_for_disordered_timestamps", "add_app_usage_details",
      "add_app_usage_flags", "remove_selected_interaction_types",
      "finalize_and_save_preprocessed_data_df">>

(* preprocess_Chronicle_Android_raw_data_file: the stages called, the     *)
(* exception caught by its except clause, the counters, the folder it     *)
(* returns and whether it has written an output table.                    *)
preprocess_Chronicle_Android_raw_data_file(content, opts, primary_timezone, s) ==
    LET handled == apply_timezone_handling(content.df, {TIMEZONE}, opts, primary_timezone)
    IN  IF content.df = <<>>
        THEN [stages |-> <<"read_csv">>, error |-> NoError, df |-> <<>>,
              stats |-> mark_error(s), folder |-> EmptyPath, saved |-> FALSE]
        ELSE IF handled.error # NoError
        THEN [stages |-> stages_to_timezone_handling, error |-> handled.error,
              df |-> content.df,
              stats |-> mark_error(s), folder |-> EmptyPath, saved |-> FALSE]
        ELSE IF ~content.has_valid_interactions
        THEN [stages |-> stages_to_timezone_handling \o stages_to_valid_app_usage(opts),
              error |-> Raise("EmptyDataError", 0), df |-> handled.result.df,
              stats |-> mark_error(s), folder |-> EmptyPath, saved |-> FALSE]
        ELSE [stages |-> stages_to_timezone_handling \o stages_to_valid_app_usage(opts)
                         \o stages_to_save,
              error |-> NoError, df |-> handled.result.df,
              stats |-> mark_processed(s), folder |-> StudyPreprocessedFolder,
              saved |-> TRUE]

(* A signal that is never delivered *)
emit_dropped(s, signal) == s

(* pyqtSignal.emit, counted per signal *)
emit(s, signal) == [s EXCEPT ![signal] = @ + 1]

InitRun ==
    /\ df = <<>>
    /\ columns = {TIMEZONE}
    /\ options \in RunOptionChoices
    /\ pc = "run"
    /\ error = NoError
    /\ df_arg = <<>>
    /\ result = NoFolder
    /\ current_data_primary_timezone = NoTimezone
    /\ stats = ProcessingStats
    /\ file_index = 0
    /\ signals = NoSignals
    /\ stages = <<>>
    /\ preprocessed_data_save_folder = NoFolder
    /\ outputs = <<>>
    /\ now = 0

(* PreprocessingThread.run up to its call of the folder run (lines 43-96). *)
ThreadRun ==
    /\ pc = "run"
    /\ IF options.enable_preprocessing
       THEN /\ pc' = "folder"
            /\ UNCHANGED signals
       ELSE IF options.enable_plotting
       THEN \E preprocessed_folder_exists \in BOOLEAN :
               IF ~preprocessed_folder_exists
               THEN /\ signals' = emit(signals, "error_signal")
                    /\ pc' = "run_done"
               ELSE /\ signals' = emit(signals, "plotting_started_signal")
                    /\ pc' = "folder"
       ELSE /\ signals' = emit(signals, "error_signal")
            /\ pc' = "run_done"
    /\ UNCHANGED <<df, columns, options, error, df_arg, result,
                   current_data_primary_timezone, stats, file_index, stages,
                   preprocessed_data_save_folder, outputs, now>>

(* preprocess_Chronicle_Android_raw_data_folder up to its loop (lines     *)
(* 695-759); the thread passes plotting_only = not enable_preprocessing   *)
(* and two lambdas as callbacks.                                          *)
FolderRun ==
    /\ pc = "folder"
    /\ LET plotting_only == ~options.enable_preprocessing
       IN  IF options.raw_data_folder = ""
           THEN /\ result' = NoFolder
                /\ pc' = "folder_returned"
                /\ UNCHANGED <<error, stats, signals, preprocessed_data_save_folder>>
           ELSE \E folder_exists \in BOOLEAN, files \in 0..MaxFolderFiles,
                   generate_plots_raises \in BOOLEAN :
               IF ~folder_exists
               THEN /\ error' = Raise("ValueError", 0)
                    /\ pc' = "folder_raised"
                    /\ UNCHANGED <<result, stats, signals, preprocessed_data_save_folder>>
               ELSE IF files = 0
               THEN /\ result' = NoFolder
                    /\ pc' = "folder_returned"
                    /\ UNCHANGED <<error, stats, signals, preprocessed_data_save_folder>>
               ELSE /\ stats' = [stats EXCEPT !.total_files = files]
                    /\ preprocessed_data_save_folder' = StudyPreprocessedFolder
                    /\ IF plotting_only
                       THEN IF options.enable_plotting
                            THEN IF generate_plots_raises
                                 THEN /\ signals' = emit(signals, "plotting_started_signal")
                                      /\ error' = Raise("PlottingError", 0)
                                      /\ pc' = "folder_raised"
                                      /\ UNCHANGED result
                                 ELSE /\ signals' = emit(emit(signals, "plotting_started_signal"),
                                                         "plotting_completed_signal")
                                      /\ result' = StudyPlottedFolder
                                      /\ pc' = "folder_returned"
                                      /\ UNCHANGED error
                            ELSE /\ result' = StudyPlottedFolder
                                 /\ pc' = "folder_returned"
                                 /\ UNCHANGED <<error, signals>>
                       ELSE /\ pc' = "loop"
                            /\ UNCHANGED <<error, result, signals>>
    /\ file_index' = 0
    /\ UNCHANGED <<df, columns, options, df_arg, current_data_primary_timezone,
                   stages, outputs, now>>

(* One iteration of the loop over the raw data files (lines 762-772):     *)
(* the call of preprocess_Chronicle_Android_raw_data_file, whose except   *)
(* clause catches every exception of the stages.                          *)
PreprocessFile ==
    /\ pc = "loop"
    /\ file_index < stats.total_files
    /\ \E content \in FileContents :
        \E primary_timezone \in
              determine_primary_timezone(content.df, {TIMEZONE},
                                         current_data_primary_timezone) :
            LET res == preprocess_Chronicle_Android_raw_data_file(
                           content, options, primary_timezone, stats)
            IN  /\ df_arg' = content.df
                /\ df' = res.df
                /\ stages' = res.stages
                /\ error' = res.error
                /\ stats' = res.stats
                /\ current_data_primary_timezone' =
                       IF content.df = <<>> THEN current_data_primary_timezone
                       ELSE primary_timezone
                /\ preprocessed_data_save_folder' = res.folder
                /\ outputs' = IF res.saved THEN Append(outputs, file_index) ELSE outputs
    /\ file_index' = file_index + 1
    /\ UNCHANGED <<columns, options, pc, result, signals, now>>

(* After the loop (lines 774-821): the plots, between the two callbacks,  *)
(* and the return of the folder.                                          *)
GeneratePlots ==
    /\ pc = "loop"
    /\ file_index = stats.total_files
    /\ \E generate_plots_raises \in BOOLEAN :
        LET started == emit(signals, "plotting_started_signal")
            \* try: generate_plots(...)  except Exception: plot_output_folder = None
            plotted == started
            \* finally: plotting_completed_callback()
            completed == emit(plotted, "plotting_completed_signal")
        IN  signals' = IF options.enable_plotting THEN completed ELSE signals
    /\ result' = preprocessed_data_save_folder
    /\ pc' = "folder_returned"
    /\ UNCHANGED <<df, columns, options, error, df_arg,
                   current_data_primary_timezone, stats, file_index, stages,
                   preprocessed_data_save_folder, outputs, now>>

(* PreprocessingThread.run after the folder run (lines 91-125): an        *)
(* exception gives error_signal, in the inner or in the outer except      *)
(* clause; a returned folder gives completed_signal, None error_signal.   *)
EmitTerminalSignal ==
    /\ pc \in {"folder_returned", "folder_raised"}
    /\ signals' = IF pc = "folder_raised" \/ result = NoFolder
                  THEN emit(signals, "error_signal")
                  ELSE emit(signals, "completed_signal")
    /\ pc' = "run_done"
    /\ UNCHANGED <<df, columns, options, error, df_arg, result,
                   current_data_primary_timezone, stats, file_index, stages,
                   preprocessed_data_save_folder, outputs, now>>

NextRun ==
    \/ ThreadRun
    \/ FolderRun
    \/ PreprocessFile
    \/ GeneratePlots
    \/ EmitTerminalSignal

SpecRun == InitRun /\ [][NextRun]_vars

(* The loop over the files has been entered. *)
InLoop == pc = "loop" \/ (pc \in {"folder_returned", "run_done"} /\ stats.total_files > 0
                          /\ options.enable_preprocessing)

(* The loop over the files has ended. *)
LoopEnded == InLoop /\ pc # "loop"

(* C21: a failure while processing one file is recorded against that file *)
(* and never aborts the others: every file attempted so far has been      *)
(* counted exactly once, as processed or as failed, and the loop ends     *)
(* only when every file has been attempted.                               *)
C21_EveryFileCountedOnce ==
    /\ InLoop => /\ stats.processed_files + stats.failed_files = file_index
                 /\ stats.processed_files = Len(outputs)
                 /\ error.kind # "ValueError"
    /\ LoopEnded => /\ file_index = stats.total_files
                    /\ stats.processed_files + stats.failed_files = stats.total_files

C21_Witness ==
    /\ pc = "run_done"
    /\ stats.total_files = 2
    /\ stats.failed_files = 1
    /\ stats.processed_files = 1
    /\ outputs = <<1>>

(***************************************************************************)
(* Running the per-file pipeline twice on one raw data file with one      *)
(* configuration.  The output table is what the reconstructor leaves,     *)
(* each row with the administrative column datetime_of_preprocessing      *)
(* that create_additional_columns fills from the clock.                   *)
(***************************************************************************)
MaxRerunEvents == 2
MaxClock == 2

(* datetime_class.now().strftime(TimestampFormat.DATETIME): the clock to  *)
(* the second.                                                            *)
strftime_DATETIME(clock) == clock

(* create_additional_columns: the administrative column. *)
create_additional_columns(d, clock) ==
    [i \in DOMAIN d |->
        [row |-> d[i], datetime_of_preprocessing |-> strftime_DATETIME(clock)]]

(* The table a run of the per-file pipeline writes (none when a stage     *)
(* raises).                                                               *)
output_table(d, cols, opts, clock) ==
    LET filtered == process_filtered_app_usage(d, cols, opts)
        valid == process_valid_app_usage(filtered.df, filtered.columns, opts)
    IN  IF filtered.error # NoError \/ valid.error # NoError
        THEN <<>>
        ELSE create_additional_columns(valid.df, clock)

(* One more event of the raw data file, in time order. *)
AddRawDataEvent ==
    /\ pc = "read"
    /\ Len(df_arg) < MaxRerunEvents
    /\ \E type \in ValidEventTypes, app \in Apps, gap \in Gaps :
        df_arg' = Append(df_arg, Event(type, app,
                      IF df_arg = <<>> THEN 0
                      ELSE df_arg[Len(df_arg)].event_timestamp + gap))
    /\ UNCHANGED <<df, columns, options, pc, error, result,
                   current_data_primary_timezone, stats, file_index, signals,
                   stages, preprocessed_data_save_folder, outputs, now>>

(* The clock advances between two runs. *)
Tick ==
    /\ pc = "rerun"
    /\ now < MaxClock
    /\ now' = now + 1
    /\ UNCHANGED <<df, columns, options, pc, error, df_arg, result,
                   current_data_primary_timezone, stats, file_index, signals,
                   stages, preprocessed_data_save_folder, outputs>>

(* A run of preprocess_Chronicle_Android_raw_data_file on the file. *)
RunPerFilePipeline ==
    /\ pc \in {"read", "rerun"}
    /\ df_arg # <<>>
    /\ LET table == output_table(df_arg, {}, options, now)
       IN  /\ df' = table
           /\ outputs' = Append(outputs, table)
    /\ pc' = IF pc = "read" THEN "rerun" ELSE "rerun_done"
    /\ UNCHANGED <<columns, options, error, df_arg, result,
                   current_data_primary_timezone, stats, file_index, signals,
                   stages, preprocessed_data_save_folder, now>>

NextRerun ==
    \/ AddRawDataEvent
    \/ Tick
    \/ RunPerFilePipeline

SpecRerun == Init /\ [][NextRerun]_vars

(* C22: running the per-file pipeline twice on the same raw events with   *)
(* the same configuration gives identical output tables.                  *)
C22_RerunGivesIdenticalOutput ==
    pc = "rerun_done" => outputs[1] = outputs[2]

(* The configuration holds a configuration-level error: a selected-       *)
(* timezone policy without a selected timezone, or no valid policy.       *)
ConfigurationError ==
    \/ /\ options.timezone_handling_option \in SelectedTimezonePolicies
       /\ options.selected_timezone = NoTimezone
    \/ options.timezone_handling_option \notin SelectedTimezonePolicies \cup PerFilePolicies

PausedOf(cat) == IF cat = "Valid" THEN ACTIVITY_PAUSED ELSE FILTERED_APP_PAUSED

(* The indices of the input rows that are not pause rows of the category, *)
(* in table order.                                                        *)
RECURSIVE NotPaused(_, _)
NotPaused(cat, n) ==
    IF n = 0 THEN <<>>
    ELSE IF df_arg[n].interaction_type = PausedOf(cat)
    THEN NotPaused(cat, n - 1)
    ELSE Append(NotPaused(cat, n - 1), n)

Before(first, second) ==
    \A i, j \in DOMAIN stages :
        (stages[i] = first /\ stages[j] = second) => i < j

(* The run of the current file has gone through every stage. *)
RanToSave ==
    stages # <<>> /\ stages[Len(stages)] = "finalize_and_save_preprocessed_data_df"

SameAppSelections ==
    {selected \in SUBSET POSSIBLE_SAME_APP_INTERACTION_TYPES_TO_STOP_USAGE_AT :
        ACTIVITY_PAUSED \in selected}

OtherSelections ==
    {selected \in SUBSET POSSIBLE_OTHER_INTERACTION_TYPES_TO_STOP_USAGE_AT :
        DEVICE_SHUTDOWN \in selected}

InitOptions ==
    /\ df = <<>>
    /\ columns = {}
    /\ options = ChronicleAndroidRawDataPreprocessingOptions(
                     POSSIBLE_SAME_APP_INTERACTION_TYPES_TO_STOP_USAGE_AT,
                     POSSIBLE_OTHER_INTERACTION_TYPES_TO_STOP_USAGE_AT)
    /\ pc = "options"
    /\ error = NoError
    /\ df_arg = <<>>
    /\ result = <<>>
    /\ current_data_primary_timezone = NoTimezone
    /\ stats = ProcessingStats
    /\ file_index = 0
    /\ signals = NoSignals
    /\ stages = <<>>
    /\ preprocessed_data_save_folder = NoFolder
    /\ outputs = <<>>
    /\ now = 0

(* _on_configure_same_app_interaction_types, dialog accepted *)
ConfigureSameAppInteractionTypes ==
    /\ pc = "options"
    /\ \E selected \in SameAppSelections :
        options' = [options EXCEPT !.same_app_interaction_types_to_stop_usage_at = selected]
    /\ UNCHANGED <<df, columns, pc, error, df_arg, result,
                   current_data_primary_timezone, stats, file_index, signals,
                   stages, preprocessed_data_save_folder, outputs, now>>

(* _on_configure_other_interaction_types, dialog accepted *)
ConfigureOtherInteractionTypes ==
    /\ pc = "options"
    /\ \E selected \in OtherSelections :
        options' = [options EXCEPT !.other_interaction_types_to_stop_usage_at = selected]
    /\ UNCHANGED <<df, columns, pc, error, df_arg, result,
                   current_data_primary_timezone, stats, file_index, signals,
                   stages, preprocessed_data_save_folder, outputs, now>>

(* apply_config_to_options with a configuration that holds both sets *)
ApplyConfigToOptions ==
    /\ pc = "options"
    /\ \E same_app \in {{ACTIVITY_PAUSED}, {ACTIVITY_PAUSED, ACTIVITY_STOPPED}},
          other \in {{DEVICE_SHUTDOWN}, {ACTIVITY_RESUMED, DEVICE_SHUTDOWN}} :
        options' = [options EXCEPT
                       !.same_app_interaction_types_to_stop_usage_at = same_app,
                       !.other_interaction_types_to_stop_usage_at = other]
    /\ UNCHANGED <<df, columns, pc, error, df_arg, result,
                   current_data_primary_timezone, stats, file_index, signals,
                   stages, preprocessed_data_save_folder, outputs, now>>

(* start_preprocessing: the preprocessor is built on the window's options *)
(* object and the reconstruction reads the filtered sets from it.         *)
StartPreprocessing ==
    /\ pc = "options"
    /\ pc' = "reconstruction"
    /\ UNCHANGED <<df, columns, options, error, df_arg, result,
                   current_data_primary_timezone, stats, file_index, signals,
                   stages, preprocessed_data_save_folder, outputs, now>>

NextOptions ==
    \/ ConfigureSameAppInteractionTypes
    \/ ConfigureOtherInteractionTypes
    \/ ApplyConfigToOptions
    \/ StartPreprocessing

SpecOptions == InitOptions /\ [][NextOptions]_vars

(* C26: when the reconstruction runs, the stop-trigger sets of the        *)
(* Filtered category are the counterparts of the operator's current       *)
(* selection, after any sequence of option updates.                       *)
C26_FilteredSetsFollowConfiguration ==
    pc = "reconstruction" =>
        /\ options.filtered_same_app_interaction_types_to_stop_usage_at
               = filtered_same_app_types(options.same_app_interaction_types_to_stop_usage_at)
        /\ options.filtered_other_interaction_types_to_stop_usage_at
               = options.other_interaction_types_to_stop_usage_at

(* The folder run went through its loop and returned (line 821). *)
FolderReturnedAfterLoop ==
    /\ pc \in {"folder_returned", "run_done"}
    /\ options.enable_preprocessing
    /\ stats.total_files > 0

(* C27: with preprocessing enabled and at least one raw data file found, *)
(* the folder run hands to plotting and returns the study's preprocessed *)
(* data folder, whatever the pattern of per-file successes and failures. *)
C27_ReturnsStudyPreprocessedFolder ==
    FolderReturnedAfterLoop => result = StudyPreprocessedFolder

----------------------------------------------------------------------------
(* ACTIVITY_RESUMED is a stop trigger of the same app and of other apps. *)
ResumedInBothStopSets ==
    /\ ACTIVITY_RESUMED \in options.same_app_interaction_types_to_stop_usage_at
    /\ ACTIVITY_RESUMED \in options.other_interaction_types_to_stop_usage_at

(* C28: with ActivityResumed in both stop-trigger sets and a time-ordered *)
(* table of unique instants, the valid usage intervals never overlap: of  *)
(* any two valid usage rows in table order the earlier row's stop is not  *)
(* later than the later row's start.                                      *)
C28_ValidUsageIntervalsNeverOverlap ==
    (Returned("Valid") /\ ResumedInBothStopSets) =>
        \A j, k \in DOMAIN df :
            (/\ j < k
             /\ df[j].interaction_type = APP_USAGE
             /\ df[k].interaction_type = APP_USAGE
             /\ HasInterval(j)
             /\ HasInterval(k))
            => df[j].stop_timestamp <= df[k].start_timestamp

----------------------------------------------------------------------------
(* The worker thread is scheduled until run() returns: every step of run  *)
(* is straight-line code or an iteration of the loop over the finite list *)
(* of raw data files.                                                     *)
SpecRunFair == SpecRun /\ WF_vars(NextRun)

(* completed_signal and error_signal emitted so far *)
TerminalSignals == signals.completed_signal + signals.error_signal

(* C29: every execution of PreprocessingThread.run terminates having      *)
(* emitted exactly one terminal signal, completed_signal or error_signal, *)
(* never both and never neither, for every combination of                 *)
(* enable_preprocessing / enable_plotting and every outcome of the folder *)
(* run.                                                                   *)
C29_ExactlyOneTerminalSignal ==
    /\ [](TerminalSignals <= 1)
    /\ [](pc = "run_done" => TerminalSignals = 1)
    /\ <>[](pc = "run_done" /\ TerminalSignals = 1)

(* A run that went through the folder run and its loop and ended with     *)
(* completed_signal                                                       *)
C29_Witness ==
    /\ pc = "run_done"
    /\ stats.total_files > 0
    /\ file_index = stats.total_files
    /\ signals.completed_signal = 1
    /\ signals.error_signal = 0

(* C30: the plotting-completed callback is always called once plotting    *)
(* has started: in every run of the worker, in both modes, every          *)
(* plotting_started signal is eventually followed by a                    *)
(* plotting_completed signal, also when plot generation raises or when no *)
(* raw data file is found.                                                *)
C30_PlottingStartedLeadsToCompleted ==
    (signals.plotting_started_signal > 0) ~> (signals.plotting_completed_signal > 0)
====
